---- MODULE Spec2Model ----
(***************************************************************************)
(* Campus fleet tracking backend (Django REST): vehicle registry, ambulance *)
(* booking state machine, trip tracker, OTP ledger and telemetry ingestion. *)
(* Rows are records, tables are functions from primary keys to rows.        *)
(* Model.save() writes the whole in-memory row back; QuerySet.update()      *)
(* writes only the named columns of the rows that match at that moment.     *)
(* Payload columns no handler reads (barcode, place, place_details, email)  *)
(* are left out of the rows.                                                *)
(***************************************************************************)
EXTENDS Integers, Sequences, FiniteSets, TLC

VARIABLES vehicles, bookings, trips, offences, otp_storage, now, inflight, resp, verified,
          users

\* vehicles, bookings, trips, offences: the tables. otp_storage: the in-memory
\* ledger. now: the clock, in minutes. inflight: per connection, the request
\* being served and its local variables, or its last response. resp: the
\* response the last step returned (NoResp after a step that returned none).
\* verified: the bookings some VerifyOTP has succeeded on (history only).
\* users: the drivers that have a row in the users table.
vars == <<vehicles, bookings, trips, offences, otp_storage, now, inflight, resp, verified,
          users>>

-----------------------------------------------------------------------------
(* Bounds of the model *)

MaxBookings == 1
MaxTrips == 2
MaxOffences == 2
MaxPending == 2
MaxTicks == 3

-----------------------------------------------------------------------------
(* Program constants *)

OtpLength == 6
OtpTtlMinutes == 10
AmbulanceSpeedKmh == 60
CampusSpeedLimit == 40
MetresPerDegree == 111195

-----------------------------------------------------------------------------
(* Values *)

NULL == "null"
NoOtp == <<>>
NoEta == -1
\* Trip.end_time while the trip has not ended (null=True).
NoTime == -1

Drivers == {"d1", "d2"}
Requests == {"r1", "r2"}
UserName(u) == IF u = "d1" THEN "Raj" ELSE IF u = "d2" THEN "Sam" ELSE NULL

VehicleIds == {"a1", "a2", "b1"}
BookingIds == 1..MaxBookings
TripIds == 1..MaxTrips
Phones == {"p1", "p2"}

\* The one longitude every location of the model lies on.
Lng == 85

EmptyLocation == [present |-> FALSE, lat |-> 0, lng |-> 0, speed |-> 0, timestamp |-> 0]
Location(lat, lng, speed, ts) ==
    [present |-> TRUE, lat |-> lat, lng |-> lng, speed |-> speed, timestamp |-> ts]
UserLocation(lat, lng) == [present |-> TRUE, lat |-> lat, lng |-> lng]

VehicleRow(number, imei, type) ==
    [vehicle_number |-> number, gps_imei |-> imei, vehicle_type |-> type,
     assigned_to |-> NULL, assigned_driver_name |-> NULL,
     is_out_of_station |-> FALSE, current_location |-> EmptyLocation]

Fleet ==
    [v \in VehicleIds |->
        IF v = "a1" THEN VehicleRow("AMB-1", "imei-a1", "ambulance")
        ELSE IF v = "a2" THEN VehicleRow("AMB-2", "imei-a2", "ambulance")
        ELSE VehicleRow("BUS-1", "imei-b1", "bus")]

Idle == [pc |-> "idle"]
Done(response) == [pc |-> "done", resp |-> response]
\* request.data of a request that carries none the properties read.
NoData == [present |-> FALSE]
NoResp == [op |-> "none", user |-> NULL, booking |-> 0, vehicle |-> NULL,
           trip |-> 0, code |-> 0, otp |-> NoOtp, data |-> NoData]
Resp(op, user, code) == [NoResp EXCEPT !.op = op, !.user = user, !.code = code]

-----------------------------------------------------------------------------
(* utils.py *)

Abs(x) == IF x < 0 THEN -x ELSE x

RECURSIVE Pow10(_)
Pow10(n) == IF n = 0 THEN 1 ELSE 10 * Pow10(n - 1)

\* str(n) of a non-negative integer: its decimal digits, most significant first.
RECURSIVE Str(_)
Str(n) == IF n < 10 THEN <<n>> ELSE Append(Str(n \div 10), n % 10)

\* The integers random.randint is sampled at; the handler keeps those in range.
RandomSamples == {0, 99999, 654321, 1000000}

\* generate_otp(length): the set of codes it can return.
generate_otp(length) ==
    {Str(n) : n \in {m \in RandomSamples : Pow10(length - 1) <= m /\ m <= Pow10(length) - 1}}

\* send_otp_mock keeping the entry a contact already has.
send_otp_mock_KeepsFirst(store, phone, otp) ==
    IF phone \in DOMAIN store THEN store
    ELSE [p \in (DOMAIN store) \cup {phone} |->
            IF p = phone THEN [otp |-> otp, expires |-> now + OtpTtlMinutes] ELSE store[p]]

\* send_otp_mock: the ledger after storing otp under phone.
send_otp_mock(store, phone, otp) ==
    [p \in (DOMAIN store) \cup {phone} |->
        IF p = phone THEN [otp |-> otp, expires |-> now + OtpTtlMinutes] ELSE store[p]]

\* verify_otp_mock without the test of the expiry.
verify_otp_mock_NoExpiry(store, phone, otp) ==
    phone \in DOMAIN store /\ store[phone].otp = otp

\* verify_otp_mock: the value it returns.
verify_otp_mock(store, phone, otp) ==
    /\ phone \in DOMAIN store
    /\ store[phone].otp = otp
    /\ store[phone].expires > now

\* verify_otp_mock: the ledger it leaves (del otp_storage[phone] on success).
AfterVerify(store, phone, otp) ==
    IF verify_otp_mock(store, phone, otp)
    THEN [p \in (DOMAIN store) \ {phone} |-> store[p]]
    ELSE store

\* calculate_distance, in metres. With dlon = 0 the haversine formula reduces
\* to R * |dlat| (in radians): 6371 km * pi / 180 per degree of latitude.
calculate_distance(lat1, lon1, lat2, lon2) == Abs(lat2 - lat1) * MetresPerDegree

\* calculate_eta, in thousandths of a minute (distance in metres, speed in km/h).
calculate_eta(distance_m, speed_kmh) ==
    IF speed_kmh <= 0 THEN 0 ELSE (distance_m * 60) \div speed_kmh

\* round(eta, 1), in tenths of a minute.
Round1(eta_milli) == (eta_milli + 50) \div 100

-----------------------------------------------------------------------------
(* Queries *)

\* QuerySet.first() of an unordered queryset: the row with the least primary key.
First(S) == CHOOSE x \in S : \A y \in S : x <= y
FirstVehicle(S) ==
    CHOOSE v \in S : \A w \in S :
        (v = w) \/ (v = "a1") \/ (v = "a2" /\ w = "b1")

\* Vehicle.objects.filter(assigned_to=user, vehicle_type='ambulance')
AmbulancesOf(d) ==
    {v \in DOMAIN vehicles :
        vehicles[v].assigned_to = d /\ vehicles[v].vehicle_type = "ambulance"}

\* Booking.objects.filter(vehicle=v, status__in=['accepted', 'in_progress'])
ActiveBookingsOn(v) ==
    {b \in DOMAIN bookings :
        bookings[b].vehicle = v /\ bookings[b].status \in {"accepted", "in_progress"}}

-----------------------------------------------------------------------------
Init ==
    /\ vehicles = Fleet
    /\ bookings = <<>>
    /\ trips = <<>>
    /\ offences = <<>>
    /\ otp_storage = <<>>
    /\ now = 0
    /\ inflight = [r \in Requests |-> Idle]
    /\ resp = NoResp
    /\ verified = {}
    /\ users = Drivers

-----------------------------------------------------------------------------
(* Vehicle registry *)

\* AssignVehicleView.post
AssignVehicle(d, v) ==
    /\ IF v \notin DOMAIN vehicles
         THEN /\ resp' = [Resp("assign", d, 404) EXCEPT !.vehicle = v]
              /\ UNCHANGED vehicles
       ELSE IF vehicles[v].assigned_to # NULL
         THEN /\ resp' = [Resp("assign", d, 400) EXCEPT !.vehicle = v]
              /\ UNCHANGED vehicles
       ELSE /\ vehicles' = [vehicles EXCEPT ![v].assigned_to = d,
                                            ![v].assigned_driver_name = UserName(d)]
            /\ resp' = [Resp("assign", d, 200) EXCEPT !.vehicle = v]
    /\ UNCHANGED <<bookings, trips, offences, otp_storage, now, inflight, verified, users>>

\* ReleaseVehicleView.post without the test of the assignee.
ReleaseVehicle_AnyDriver(d, v) ==
    /\ IF v \notin DOMAIN vehicles
         THEN /\ resp' = [Resp("release", d, 404) EXCEPT !.vehicle = v]
              /\ UNCHANGED vehicles
       ELSE /\ vehicles' = [vehicles EXCEPT ![v].assigned_to = NULL,
                                            ![v].assigned_driver_name = NULL]
            /\ resp' = [Resp("release", d, 200) EXCEPT !.vehicle = v]
    /\ UNCHANGED <<bookings, trips, offences, otp_storage, now, inflight, verified, users>>

\* ReleaseVehicleView.post
ReleaseVehicle(d, v) ==
    /\ IF v \notin DOMAIN vehicles
         THEN /\ resp' = [Resp("release", d, 404) EXCEPT !.vehicle = v]
              /\ UNCHANGED vehicles
       ELSE IF vehicles[v].assigned_to # d
         THEN /\ resp' = [Resp("release", d, 403) EXCEPT !.vehicle = v]
              /\ UNCHANGED vehicles
       ELSE /\ vehicles' = [vehicles EXCEPT ![v].assigned_to = NULL,
                                            ![v].assigned_driver_name = NULL]
            /\ resp' = [Resp("release", d, 200) EXCEPT !.vehicle = v]
    /\ UNCHANGED <<bookings, trips, offences, otp_storage, now, inflight, verified, users>>

\* A vehicle id no row has.
UnknownVehicle == "v0"

\* The registry alone, every request served alone.
NextRegistry ==
    \/ \E d \in Drivers, v \in VehicleIds \cup {UnknownVehicle} : AssignVehicle(d, v)
    \/ \E d \in Drivers, v \in VehicleIds \cup {UnknownVehicle} : ReleaseVehicle(d, v)

SpecRegistry == Init /\ [][NextRegistry]_vars

-----------------------------------------------------------------------------
(* Booking state machine *)

\* The user directory: registration id -> name (User.objects.get(registration_id=...)).
StudentDirectory == [r \in {"STU1"} |-> "Priya"]

\* BookAmbulanceView.post: the student_name stored on the booking.
ResolveStudentName(student_name, reg) ==
    IF student_name # NULL THEN student_name
    ELSE IF reg \in DOMAIN StudentDirectory THEN StudentDirectory[reg]
    ELSE "Unknown Student"

\* Booking.objects.create(**validated_data, student_name=...) with the model's defaults.
NewBooking(reg, student_name, phone, loc) ==
    [student_registration_id |-> reg, student_name |-> student_name, phone |-> phone,
     user_location |-> loc, status |-> "pending", otp |-> NoOtp,
     driver |-> NULL, driver_name |-> NULL, vehicle |-> NULL, vehicle_number |-> NULL,
     eta_minutes |-> NoEta, created_at |-> Cardinality(DOMAIN bookings)]

\* serializer.validated_data: the keys it holds. student_name is an optional
\* field of BookingCreateSerializer and is a key only when the request has it
\* (NULL stands for a request without it).
ValidatedKeys(student_name) ==
    {"student_registration_id", "phone", "user_location"}
        \cup (IF student_name # NULL THEN {"student_name"} ELSE {})

\* request.data of a booking request, as far as the properties read it.
BookData(reg, student_name) ==
    [student_registration_id |-> reg, student_name |-> student_name]

\* BookAmbulanceView.post, the new row getting uuid id. The call
\* Booking.objects.create(**validated_data, student_name=student_name) raises
\* TypeError (student_name given twice) when validated_data has the key; the
\* request then ends as a 500.
BookAmbulanceAs(id, reg, student_name, phone, loc) ==
    /\ id \notin DOMAIN bookings
    /\ IF "student_name" \in ValidatedKeys(student_name)
         THEN /\ resp' = [Resp("create", NULL, 500) EXCEPT !.data = BookData(reg, student_name)]
              /\ UNCHANGED bookings
         ELSE /\ bookings' = [b \in (DOMAIN bookings) \cup {id} |->
                                IF b = id
                                THEN NewBooking(reg, ResolveStudentName(student_name, reg),
                                                phone, loc)
                                ELSE bookings[b]]
              /\ resp' = [Resp("create", NULL, 201) EXCEPT
                              !.booking = id, !.data = BookData(reg, student_name)]
    /\ UNCHANGED <<vehicles, trips, offences, otp_storage, now, inflight, verified, users>>

\* BookAmbulanceView.post; the new row's uuid is any unused id.
BookAmbulance(reg, student_name, phone, loc) ==
    \E id \in BookingIds : BookAmbulanceAs(id, reg, student_name, phone, loc)

\* Booking.objects.filter(status='pending')
PendingBookings == {b \in DOMAIN bookings : bookings[b].status = "pending"}

\* order_by('-created_at') of the set S of bookings: the newest first.
RECURSIVE NewestFirst(_)
NewestFirst(S) ==
    IF S = {} THEN <<>>
    ELSE LET b == CHOOSE x \in S : \A y \in S : bookings[x].created_at >= bookings[y].created_at
         IN <<b>> \o NewestFirst(S \ {b})

\* PendingBookingsView.get
ListPendingBookings(d) ==
    /\ resp' = [Resp("pending", d, 200) EXCEPT !.data = [bookings |-> NewestFirst(PendingBookings)]]
    /\ UNCHANGED <<vehicles, bookings, trips, offences, otp_storage, now, inflight, verified, users>>

\* AcceptBookingView.post: eta from the ambulance's last location, or none.
AcceptEta(amb, bk) ==
    IF amb.current_location.present /\ bk.user_location.present
    THEN LET eta == calculate_eta(
                       calculate_distance(amb.current_location.lat, amb.current_location.lng,
                                          bk.user_location.lat, bk.user_location.lng),
                       AmbulanceSpeedKmh)
         IN IF eta # 0 THEN Round1(eta) ELSE NoEta
    ELSE NoEta

\* AcceptedRow with the line booking.otp = otp left out.
AcceptedRow_OtpNotStored(bk, d, a, amb, otp) ==
    [bk EXCEPT !.status = "accepted", !.driver = d, !.driver_name = UserName(d),
               !.vehicle = a, !.vehicle_number = amb.vehicle_number,
               !.eta_minutes = AcceptEta(amb, bk)]

\* AcceptedRow with the line booking.driver = request.user left out.
AcceptedRow_DriverNotStored(bk, d, a, amb, otp) ==
    [bk EXCEPT !.status = "accepted", !.driver_name = UserName(d),
               !.vehicle = a, !.vehicle_number = amb.vehicle_number,
               !.otp = otp, !.eta_minutes = AcceptEta(amb, bk)]

\* AcceptBookingView.post: the in-memory booking row that booking.save() writes.
AcceptedRow(bk, d, a, amb, otp) ==
    [bk EXCEPT !.status = "accepted", !.driver = d, !.driver_name = UserName(d),
               !.vehicle = a, !.vehicle_number = amb.vehicle_number,
               !.otp = otp, !.eta_minutes = AcceptEta(amb, bk)]

\* Booking.objects.get(id=booking_id, status='pending') finds a row.
PendingFound(b) == b \in DOMAIN bookings /\ bookings[b].status = "pending"

\* AcceptBooking with the OTP issued before the ambulance lookup.
AcceptBooking_OtpBeforeLookup(d, b) ==
    /\ IF ~PendingFound(b)
         THEN /\ resp' = [Resp("accept", d, 404) EXCEPT !.booking = b]
              /\ UNCHANGED <<bookings, otp_storage>>
       ELSE \E otp \in generate_otp(OtpLength) :
              /\ otp_storage' = send_otp_mock(otp_storage, bookings[b].phone, otp)
              /\ IF AmbulancesOf(d) = {}
                   THEN /\ resp' = [Resp("accept", d, 400) EXCEPT !.booking = b]
                        /\ UNCHANGED bookings
                   ELSE LET a == FirstVehicle(AmbulancesOf(d)) IN
                        /\ bookings' = [bookings EXCEPT
                                          ![b] = AcceptedRow(bookings[b], d, a, vehicles[a], otp)]
                        /\ resp' = [Resp("accept", d, 200) EXCEPT !.booking = b, !.otp = otp]
    /\ UNCHANGED <<vehicles, trips, offences, now, inflight, verified, users>>

\* AcceptBookingView.post as one request served alone.
AcceptBooking(d, b) ==
    /\ IF ~PendingFound(b)
         THEN /\ resp' = [Resp("accept", d, 404) EXCEPT !.booking = b]
              /\ UNCHANGED <<bookings, otp_storage>>
       ELSE IF AmbulancesOf(d) = {}
         THEN /\ resp' = [Resp("accept", d, 400) EXCEPT !.booking = b]
              /\ UNCHANGED <<bookings, otp_storage>>
       ELSE \E otp \in generate_otp(OtpLength) :
              LET a == FirstVehicle(AmbulancesOf(d)) IN
              /\ otp_storage' = send_otp_mock(otp_storage, bookings[b].phone, otp)
              /\ bookings' = [bookings EXCEPT
                                ![b] = AcceptedRow(bookings[b], d, a, vehicles[a], otp)]
              /\ resp' = [Resp("accept", d, 200) EXCEPT !.booking = b, !.otp = otp]
    /\ UNCHANGED <<vehicles, trips, offences, now, inflight, verified, users>>

\* The update with the driver=request.user filter left out.
UpdateStatus_AnyDriver(d, b, s) ==
    [x \in DOMAIN bookings |->
        IF x = b THEN [bookings[x] EXCEPT !.status = s] ELSE bookings[x]]

\* The update restricted to bookings that are accepted.
UpdateStatus_OnlyAccepted(d, b, s) ==
    [x \in DOMAIN bookings |->
        IF x = b /\ bookings[x].driver = d /\ bookings[x].status = "accepted"
        THEN [bookings[x] EXCEPT !.status = s]
        ELSE bookings[x]]

\* Booking.objects.filter(id=booking_id, driver=request.user).update(status=s)
UpdateStatus(d, b, s) ==
    [x \in DOMAIN bookings |->
        IF x = b /\ bookings[x].driver = d THEN [bookings[x] EXCEPT !.status = s]
        ELSE bookings[x]]

\* AbortBookingView.post
AbortBooking(d, b) ==
    /\ bookings' = UpdateStatus(d, b, "cancelled")
    /\ resp' = [Resp("abort", d, 200) EXCEPT !.booking = b]
    /\ UNCHANGED <<vehicles, trips, offences, otp_storage, now, inflight, verified, users>>

\* CompleteBookingView.post
CompleteBooking(d, b) ==
    /\ bookings' = UpdateStatus(d, b, "completed")
    /\ resp' = [Resp("complete", d, 200) EXCEPT !.booking = b]
    /\ UNCHANGED <<vehicles, trips, offences, otp_storage, now, inflight, verified, users>>

\* OtpFound with the driver=request.user filter left out.
OtpFound_AnyDriver(d, b, otp) ==
    b \in DOMAIN bookings /\ bookings[b].otp = otp

\* Booking.objects.get(id=booking_id, driver=request.user, otp=otp) finds a row.
OtpFound(d, b, otp) ==
    b \in DOMAIN bookings /\ bookings[b].driver = d /\ bookings[b].otp = otp

\* VerifyOTPView.post as one request served alone (otp is a non-empty string).
VerifyOTP(d, b, otp) ==
    /\ otp # NoOtp
    /\ IF ~OtpFound(d, b, otp)
         THEN /\ resp' = [Resp("verify", d, 400) EXCEPT !.booking = b, !.otp = otp]
              /\ UNCHANGED <<bookings, verified>>
       ELSE /\ bookings' = [bookings EXCEPT ![b] = [bookings[b] EXCEPT !.status = "in_progress"]]
            /\ verified' = verified \cup {b}
            /\ resp' = [Resp("verify", d, 200) EXCEPT !.booking = b, !.otp = otp]
    /\ UNCHANGED <<vehicles, trips, offences, otp_storage, now, inflight, users>>

-----------------------------------------------------------------------------
(* Password reset: the OTP ledger *)

\* The phones of the users (User.objects.get(phone=phone) finds a row).
UserPhones == Phones

\* A phone no user has.
UnknownPhone == "p0"

\* The codes generate_otp returns to the reset requests of the model.
ResetCodes == {Str(123456), Str(654321)}

\* The minutes that pass between two requests when time passes.
TickMinutes == 5

\* ForgotPasswordView.post, otp being the code generate_otp returned.
ForgotPassword(phone, otp) ==
    /\ IF phone = NULL
         THEN /\ resp' = Resp("forgot", NULL, 400)
              /\ UNCHANGED otp_storage
       ELSE IF phone \notin UserPhones
         THEN /\ resp' = [Resp("forgot", NULL, 404) EXCEPT !.data = [phone |-> phone]]
              /\ UNCHANGED otp_storage
       ELSE /\ otp_storage' = send_otp_mock(otp_storage, phone, otp)
            /\ resp' = [Resp("forgot", NULL, 200) EXCEPT !.otp = otp, !.data = [phone |-> phone]]
    /\ UNCHANGED <<vehicles, bookings, trips, offences, now, inflight, verified, users>>

\* ResetPasswordView.post with a new password given; the users' passwords are
\* not part of the state.
ResetPassword(phone, otp) ==
    /\ IF phone = NULL \/ otp = NoOtp
         THEN /\ resp' = Resp("reset", NULL, 400)
              /\ UNCHANGED otp_storage
       ELSE /\ otp_storage' = AfterVerify(otp_storage, phone, otp)
            /\ resp' = [Resp("reset", NULL,
                              IF ~verify_otp_mock(otp_storage, phone, otp) THEN 400
                              ELSE IF phone \in UserPhones THEN 200 ELSE 404)
                          EXCEPT !.otp = otp, !.data = [phone |-> phone]]
    /\ UNCHANGED <<vehicles, bookings, trips, offences, now, inflight, verified, users>>

\* Time passes between two requests.
Tick ==
    /\ now < MaxTicks * TickMinutes
    /\ now' = now + TickMinutes
    /\ resp' = NoResp
    /\ UNCHANGED <<vehicles, bookings, trips, offences, otp_storage, inflight, verified, users>>

NextLedger ==
    \/ \E phone \in UserPhones \cup {UnknownPhone}, otp \in ResetCodes : ForgotPassword(phone, otp)
    \/ \E phone \in UserPhones \cup {UnknownPhone}, otp \in ResetCodes : ResetPassword(phone, otp)
    \/ Tick

SpecLedger == Init /\ [][NextLedger]_vars

\* The ledger shared by the password reset and the booking desk: the reset
\* requests are issued the code 123456, which no accept of the model issues.
NextOtpScope ==
    \/ AssignVehicle("d1", "a1")
    \/ \E phone \in Phones : BookAmbulance("STU1", NULL, phone, UserLocation(2, Lng))
    \/ \E d \in Drivers, b \in BookingIds : AcceptBooking(d, b)
    \/ \E phone \in UserPhones : ForgotPassword(phone, Str(123456))
    \/ \E phone \in UserPhones, otp \in ResetCodes \cup generate_otp(OtpLength) :
          ResetPassword(phone, otp)
    \/ Tick

SpecOtpScope == Init /\ [][NextOtpScope]_vars

-----------------------------------------------------------------------------
(* Admin *)

\* The ids of the vehicles the admin adds after the fleet.
NewVehicleIds == {"b2"}

\* VehicleCreateSerializer.is_valid: the unique columns (UniqueValidator).
VehicleIsValid(number, imei) ==
    \A v \in DOMAIN vehicles :
        vehicles[v].vehicle_number # number /\ vehicles[v].gps_imei # imei

\* AddVehicleView.post; id is the uuid the new row gets.
AddVehicle(id, number, imei, type) ==
    /\ id \notin DOMAIN vehicles
    /\ IF VehicleIsValid(number, imei)
         THEN /\ vehicles' = [v \in (DOMAIN vehicles) \cup {id} |->
                                IF v = id THEN VehicleRow(number, imei, type) ELSE vehicles[v]]
              /\ resp' = [Resp("add_vehicle", NULL, 201) EXCEPT !.vehicle = id]
         ELSE /\ resp' = Resp("add_vehicle", NULL, 400)
              /\ UNCHANGED vehicles
    /\ UNCHANGED <<bookings, trips, offences, otp_storage, now, inflight, verified, users>>

\* vehicle.delete(): the rows left in a table whose vehicle column is
\* on_delete=SET_NULL (Booking.vehicle, Offence.vehicle).
VehicleSetNull(table, v) ==
    [x \in DOMAIN table |->
        IF table[x].vehicle = v THEN [table[x] EXCEPT !.vehicle = NULL] ELSE table[x]]

\* vehicle.delete(): the rows left in trips, whose vehicle column is
\* on_delete=CASCADE.
TripsCascade(v) ==
    [t \in {x \in DOMAIN trips : trips[x].vehicle # v} |-> trips[t]]

\* DeleteVehicleView.delete
DeleteVehicle(v) ==
    /\ IF v \notin DOMAIN vehicles
         THEN /\ resp' = [Resp("delete_vehicle", NULL, 404) EXCEPT !.vehicle = v]
              /\ UNCHANGED <<vehicles, bookings, trips, offences>>
         ELSE /\ vehicles' = [x \in (DOMAIN vehicles) \ {v} |-> vehicles[x]]
              /\ trips' = TripsCascade(v)
              /\ bookings' = VehicleSetNull(bookings, v)
              /\ offences' = VehicleSetNull(offences, v)
              /\ resp' = [Resp("delete_vehicle", NULL, 200) EXCEPT !.vehicle = v]
    /\ UNCHANGED <<otp_storage, now, inflight, verified, users>>

\* user.delete(): the rows left in a table whose driver column is
\* on_delete=SET_NULL (Booking.driver, Trip.driver, Offence.driver).
DriverSetNull(table, d) ==
    [x \in DOMAIN table |->
        IF table[x].driver = d THEN [table[x] EXCEPT !.driver = NULL] ELSE table[x]]

\* DeleteDriverView.delete: the vehicles of the driver are released with an
\* update, then the user row is deleted.
DeleteDriver(d) ==
    /\ vehicles' = [v \in DOMAIN vehicles |->
                       IF vehicles[v].assigned_to = d
                       THEN [vehicles[v] EXCEPT !.assigned_to = NULL,
                                                !.assigned_driver_name = NULL]
                       ELSE vehicles[v]]
    /\ IF d \notin users
         THEN /\ resp' = [Resp("delete_driver", NULL, 404) EXCEPT !.data = [driver |-> d]]
              /\ UNCHANGED <<users, bookings, trips, offences>>
         ELSE /\ users' = users \ {d}
              /\ bookings' = DriverSetNull(bookings, d)
              /\ trips' = DriverSetNull(trips, d)
              /\ offences' = DriverSetNull(offences, d)
              /\ resp' = [Resp("delete_driver", NULL, 200) EXCEPT !.data = [driver |-> d]]
    /\ UNCHANGED <<otp_storage, now, inflight, verified>>

\* The offences, oldest first, without the i-th.
Without(seq, i) == SubSeq(seq, 1, i - 1) \o SubSeq(seq, i + 1, Len(seq))

\* DeleteOffenceView.delete; the i-th offence stands for the row of the uuid.
DeleteOffence(i) ==
    /\ IF i \notin 1..Len(offences)
         THEN /\ resp' = [Resp("delete_offence", NULL, 404) EXCEPT !.data = [offence |-> i]]
              /\ UNCHANGED offences
         ELSE /\ offences' = Without(offences, i)
              /\ resp' = [Resp("delete_offence", NULL, 200) EXCEPT !.data = [offence |-> i]]
    /\ UNCHANGED <<vehicles, bookings, trips, otp_storage, now, inflight, verified, users>>

\* MarkOffencePaidView.patch clearing the flag of an offence that is paid.
MarkOffencePaid_Toggles(i) ==
    /\ IF i \notin 1..Len(offences)
         THEN /\ resp' = [Resp("mark_paid", NULL, 404) EXCEPT !.data = [offence |-> i]]
              /\ UNCHANGED offences
         ELSE /\ offences' = [offences EXCEPT ![i].is_paid = ~@]
              /\ resp' = [Resp("mark_paid", NULL, 200) EXCEPT !.data = [offence |-> i]]
    /\ UNCHANGED <<vehicles, bookings, trips, otp_storage, now, inflight, verified, users>>

\* MarkOffencePaidView.patch
MarkOffencePaid(i) ==
    /\ IF i \notin 1..Len(offences)
         THEN /\ resp' = [Resp("mark_paid", NULL, 404) EXCEPT !.data = [offence |-> i]]
              /\ UNCHANGED offences
         ELSE /\ offences' = [offences EXCEPT ![i].is_paid = TRUE]
              /\ resp' = [Resp("mark_paid", NULL, 200) EXCEPT !.data = [offence |-> i]]
    /\ UNCHANGED <<vehicles, bookings, trips, otp_storage, now, inflight, verified, users>>

-----------------------------------------------------------------------------
(* Telemetry *)

\* request.data of a GPS sample; timestamp 0 stands for an absent timestamp.
GpsData(imei, latitude, longitude, speed, timestamp) ==
    [imei |-> imei, latitude |-> latitude, longitude |-> longitude,
     speed |-> speed, timestamp |-> timestamp]

\* The response of ReceiveGPSView.post with the request it answers.
GpsResp(code, data) == [Resp("gps", NULL, code) EXCEPT !.data = data]

\* Vehicle.objects.get(gps_imei=imei)
VehiclesByImei(imei) == {v \in DOMAIN vehicles : vehicles[v].gps_imei = imei}

\* Offence.objects.create(offence_type='bus_overspeed', ...)
BusOffence(v, row, speed, location) ==
    [offence_type |-> "bus_overspeed", driver |-> row.assigned_to,
     driver_name |-> row.assigned_driver_name, student |-> NULL, student_name |-> NULL,
     student_registration_id |-> NULL, vehicle |-> v, vehicle_number |-> row.vehicle_number,
     speed |-> speed, speed_limit |-> CampusSpeedLimit, location |-> location,
     rfid_number |-> NULL, is_paid |-> FALSE]

\* ReceiveGPSView.post: the eta written on the in-flight booking.
RefreshedEta(location, bk) ==
    Round1(calculate_eta(
        calculate_distance(location.lat, location.lng, bk.user_location.lat, bk.user_location.lng),
        AmbulanceSpeedKmh))

\* The eta refresh with the bookings of v taken in any status.
RefreshEta_AnyStatus(v, location) ==
    LET on == {b \in DOMAIN bookings : bookings[b].vehicle = v}
    IN IF vehicles[v].vehicle_type = "ambulance" /\ on # {}
          /\ bookings[First(on)].user_location.present
       THEN [bookings EXCEPT ![First(on)].eta_minutes =
                                 RefreshedEta(location, bookings[First(on)])]
       ELSE bookings

\* ReceiveGPSView.post: the bookings after the eta refresh for ambulance v.
RefreshEta(v, location) ==
    IF vehicles[v].vehicle_type = "ambulance" /\ ActiveBookingsOn(v) # {}
       /\ bookings[First(ActiveBookingsOn(v))].user_location.present
    THEN LET b == First(ActiveBookingsOn(v))
         IN [bookings EXCEPT ![b].eta_minutes = RefreshedEta(location, bookings[b])]
    ELSE bookings

\* ReceiveGPSView.post with the limit test written >= instead of >.
ReceiveGPS_AtLeastLimit(imei, latitude, longitude, speed, timestamp) ==
    /\ IF imei = NULL \/ latitude = 0 \/ longitude = 0 \/ speed = 0
         THEN /\ resp' = GpsResp(400, GpsData(imei, latitude, longitude, speed, timestamp))
              /\ UNCHANGED <<vehicles, bookings, offences>>
       ELSE IF VehiclesByImei(imei) = {}
         THEN /\ resp' = GpsResp(404, GpsData(imei, latitude, longitude, speed, timestamp))
              /\ UNCHANGED <<vehicles, bookings, offences>>
       ELSE LET v == CHOOSE x \in VehiclesByImei(imei) : TRUE
                location == Location(latitude, longitude, speed,
                                     IF timestamp # 0 THEN timestamp ELSE now)
            IN /\ vehicles' = [vehicles EXCEPT ![v].current_location = location]
               /\ offences' = IF vehicles[v].vehicle_type = "bus" /\ speed >= CampusSpeedLimit
                              THEN Append(offences, BusOffence(v, vehicles[v], speed, location))
                              ELSE offences
               /\ bookings' = RefreshEta(v, location)
               /\ resp' = [GpsResp(200, GpsData(imei, latitude, longitude, speed, timestamp))
                             EXCEPT !.vehicle = v]
    /\ UNCHANGED <<trips, otp_storage, now, inflight, verified, users>>

\* ReceiveGPSView.post with a debounce: no offence for a sample equal to the
\* vehicle's stored location.
ReceiveGPS_Debounced(imei, latitude, longitude, speed, timestamp) ==
    /\ IF imei = NULL \/ latitude = 0 \/ longitude = 0 \/ speed = 0
         THEN /\ resp' = GpsResp(400, GpsData(imei, latitude, longitude, speed, timestamp))
              /\ UNCHANGED <<vehicles, bookings, offences>>
       ELSE IF VehiclesByImei(imei) = {}
         THEN /\ resp' = GpsResp(404, GpsData(imei, latitude, longitude, speed, timestamp))
              /\ UNCHANGED <<vehicles, bookings, offences>>
       ELSE LET v == CHOOSE x \in VehiclesByImei(imei) : TRUE
                location == Location(latitude, longitude, speed,
                                     IF timestamp # 0 THEN timestamp ELSE now)
            IN /\ vehicles' = [vehicles EXCEPT ![v].current_location = location]
               /\ offences' = IF /\ vehicles[v].vehicle_type = "bus"
                                 /\ speed > CampusSpeedLimit
                                 /\ vehicles[v].current_location # location
                              THEN Append(offences, BusOffence(v, vehicles[v], speed, location))
                              ELSE offences
               /\ bookings' = RefreshEta(v, location)
               /\ resp' = [GpsResp(200, GpsData(imei, latitude, longitude, speed, timestamp))
                             EXCEPT !.vehicle = v]
    /\ UNCHANGED <<trips, otp_storage, now, inflight, verified, users>>

\* ReceiveGPSView.post as one request served alone. A value of 0 (or a missing
\* value) for imei, latitude, longitude or speed fails all([...]); timestamp 0
\* stands for an absent timestamp.
ReceiveGPS(imei, latitude, longitude, speed, timestamp) ==
    /\ IF imei = NULL \/ latitude = 0 \/ longitude = 0 \/ speed = 0
         THEN /\ resp' = GpsResp(400, GpsData(imei, latitude, longitude, speed, timestamp))
              /\ UNCHANGED <<vehicles, bookings, offences>>
       ELSE IF VehiclesByImei(imei) = {}
         THEN /\ resp' = GpsResp(404, GpsData(imei, latitude, longitude, speed, timestamp))
              /\ UNCHANGED <<vehicles, bookings, offences>>
       ELSE LET v == CHOOSE x \in VehiclesByImei(imei) : TRUE
                location == Location(latitude, longitude, speed,
                                     IF timestamp # 0 THEN timestamp ELSE now)
            IN /\ vehicles' = [vehicles EXCEPT ![v].current_location = location]
               /\ offences' = IF vehicles[v].vehicle_type = "bus" /\ speed > CampusSpeedLimit
                              THEN Append(offences, BusOffence(v, vehicles[v], speed, location))
                              ELSE offences
               /\ bookings' = RefreshEta(v, location)
               /\ resp' = [GpsResp(200, GpsData(imei, latitude, longitude, speed, timestamp))
                             EXCEPT !.vehicle = v]
    /\ UNCHANGED <<trips, otp_storage, now, inflight, verified, users>>

\* The registered RFID devices: rfid_id -> location_name.
RFIDDevices == [r \in {"RF1"} |-> "Main Gate"]

\* The columns of Offence that Model.__init__ accepts as keyword arguments.
OffenceColumns ==
    {"offence_type", "driver", "driver_name", "student", "student_name",
     "student_registration_id", "vehicle", "vehicle_number", "speed", "speed_limit",
     "location", "rfid_number", "is_paid", "timestamp"}

\* The keyword arguments of Offence.objects.create in ReceiveRFIDScanView.post.
StudentOffence(rfid_device_id, student_registration_id, student_name, phone, speed) ==
    [offence_type |-> "student_speed",
     student |-> IF student_registration_id \in DOMAIN StudentDirectory
                 THEN student_registration_id ELSE NULL,
     student_name |-> student_name,
     student_registration_id |-> student_registration_id,
     phone |-> phone,
     speed |-> speed, speed_limit |-> CampusSpeedLimit,
     location |-> [name |-> RFIDDevices[rfid_device_id]],
     rfid_number |-> rfid_device_id, is_paid |-> FALSE]

\* request.data of an RFID scan.
RfidData(rfid_device_id, student_registration_id, speed) ==
    [rfid_device_id |-> rfid_device_id,
     student_registration_id |-> student_registration_id, speed |-> speed]

\* ReceiveRFIDScanView.post as one request served alone. Model.__init__ raises
\* TypeError on a keyword that is no column, and the handler returns no
\* Response when the speed is within the limit: both end as a 500.
ReceiveRFIDScan(rfid_device_id, student_registration_id, student_name, phone, speed) ==
    LET data == RfidData(rfid_device_id, student_registration_id, speed)
        kwargs == StudentOffence(rfid_device_id, student_registration_id,
                                 student_name, phone, speed)
    IN /\ IF rfid_device_id = NULL \/ student_registration_id = NULL \/ speed = 0
            THEN /\ resp' = [Resp("rfid", NULL, 400) EXCEPT !.data = data]
                 /\ UNCHANGED offences
          ELSE IF rfid_device_id \notin DOMAIN RFIDDevices
            THEN /\ resp' = [Resp("rfid", NULL, 404) EXCEPT !.data = data]
                 /\ UNCHANGED offences
          ELSE IF speed > CampusSpeedLimit /\ DOMAIN kwargs \subseteq OffenceColumns
            THEN /\ offences' = Append(offences, kwargs)
                 /\ resp' = [Resp("rfid", NULL, 200) EXCEPT !.data = data]
          ELSE /\ resp' = [Resp("rfid", NULL, 500) EXCEPT !.data = data]
               /\ UNCHANGED offences
       /\ UNCHANGED <<vehicles, bookings, trips, otp_storage, now, inflight, verified, users>>

\* Telemetry with the registry beside it, every request served alone. The
\* table of offences is capped at MaxOffences rows.
NextTelemetry ==
    \/ \E id \in NewVehicleIds : AddVehicle(id, "BUS-2", "imei-b2", "bus")
    \/ \E d \in Drivers : AssignVehicle(d, "b1")
    \/ \E d \in Drivers : ReleaseVehicle(d, "b1")
    \/ \E imei \in {"imei-a1", "imei-b1", "imei-b2"}, lat \in {0, 1}, speed \in {0, 40, 45} :
          Len(offences) < MaxOffences /\ ReceiveGPS(imei, lat, Lng, speed, 7)
    \/ \E dev \in {"RF1", "RF9"}, reg \in {"STU1", "STU9"}, speed \in {0, 40, 45} :
          Len(offences) < MaxOffences /\ ReceiveRFIDScan(dev, reg, NULL, "p1", speed)

SpecTelemetry == Init /\ [][NextTelemetry]_vars

-----------------------------------------------------------------------------
(* The booking lifecycle, every request served alone *)

\* One valid code and one wrong one; one ambulance that both drivers compete for.
RequestCodes == generate_otp(OtpLength) \cup {<<0, 0, 0, 0, 0, 0>>}

Next ==
    \/ \E d \in Drivers : AssignVehicle(d, "a1")
    \/ \E d \in Drivers : ReleaseVehicle(d, "a1")
    \/ \E p \in Phones : BookAmbulance("STU1", NULL, p, UserLocation(2, Lng))
    \/ \E d \in Drivers, b \in BookingIds : AcceptBooking(d, b)
    \/ \E d \in Drivers, b \in BookingIds, otp \in RequestCodes : VerifyOTP(d, b, otp)
    \/ \E d \in Drivers, b \in BookingIds : AbortBooking(d, b)
    \/ \E d \in Drivers, b \in BookingIds : CompleteBooking(d, b)
    \/ ReceiveGPS("imei-a1", 1, Lng, 35, 7)

Spec == Init /\ [][Next]_vars

\* The booking lifecycle with two ambulances, each held by its own driver and
\* each sending GPS samples.
NextEta ==
    \/ AssignVehicle("d1", "a1")
    \/ AssignVehicle("d2", "a2")
    \/ BookAmbulance("STU1", NULL, "p1", UserLocation(2, Lng))
    \/ \E d \in Drivers, b \in BookingIds : AcceptBooking(d, b)
    \/ \E d \in Drivers, b \in BookingIds, otp \in generate_otp(OtpLength) : VerifyOTP(d, b, otp)
    \/ \E d \in Drivers, b \in BookingIds : AbortBooking(d, b)
    \/ \E d \in Drivers, b \in BookingIds : CompleteBooking(d, b)
    \/ \E lat \in {1, 5} : ReceiveGPS("imei-a1", lat, Lng, 35, 7)
    \/ ReceiveGPS("imei-a2", 1, Lng, 35, 7)

SpecEta == Init /\ [][NextEta]_vars

\* The booking desk: requests with and without a name, for a known and an
\* unknown student, the drivers' listing, and accepts. Up to MaxPending
\* bookings exist.
NextIntake ==
    \/ \E id \in 1..MaxPending, reg \in {"STU1", "STU9"}, name \in {NULL, "Asha"} :
          BookAmbulanceAs(id, reg, name, "p1", UserLocation(2, Lng))
    \/ \E d \in Drivers : ListPendingBookings(d)
    \/ AssignVehicle("d1", "a1")
    \/ \E d \in Drivers, b \in 1..MaxPending : AcceptBooking(d, b)

SpecIntake == Init /\ [][NextIntake]_vars

-----------------------------------------------------------------------------
(* Trip tracker *)

\* Vehicle.objects.get(id=vehicle_id, assigned_to=request.user) finds a row.
AssignedFound(d, v) == v \in DOMAIN vehicles /\ vehicles[v].assigned_to = d

\* Trip.objects.filter(driver=d, is_active=True)
ActiveTripsOf(d) == {t \in DOMAIN trips : trips[t].driver = d /\ trips[t].is_active}

\* Trip.objects.create(vehicle=..., driver=..., ..., is_active=True), the
\* denormalized columns copied from the vehicle row the handler fetched.
NewTrip(d, v, row) ==
    [vehicle |-> v, driver |-> d, vehicle_number |-> row.vehicle_number,
     driver_name |-> UserName(d), vehicle_type |-> row.vehicle_type,
     start_time |-> now, end_time |-> NoTime, is_active |-> TRUE]

\* The trips table with a new row under id.
WithTrip(id, row) ==
    [t \in (DOMAIN trips) \cup {id} |-> IF t = id THEN row ELSE trips[t]]

\* StartTripView.post with the active-trip check lacking its is_active filter.
StartTrip_EndedTripsBlock(d, v) ==
    /\ IF v = NULL
         THEN /\ resp' = Resp("start", d, 400)
              /\ UNCHANGED trips
       ELSE IF ~AssignedFound(d, v)
         THEN /\ resp' = [Resp("start", d, 404) EXCEPT !.vehicle = v]
              /\ UNCHANGED trips
       ELSE IF \E t \in DOMAIN trips : trips[t].driver = d
         THEN /\ resp' = [Resp("start", d, 400) EXCEPT !.vehicle = v]
              /\ UNCHANGED trips
       ELSE \E id \in TripIds \ DOMAIN trips :
              /\ trips' = WithTrip(id, NewTrip(d, v, vehicles[v]))
              /\ resp' = [Resp("start", d, 201) EXCEPT !.vehicle = v, !.trip = id]
    /\ UNCHANGED <<vehicles, bookings, offences, otp_storage, now, inflight, verified, users>>

\* StartTripView.post as one request served alone; the new row's uuid is any unused id.
StartTrip(d, v) ==
    /\ IF v = NULL
         THEN /\ resp' = Resp("start", d, 400)
              /\ UNCHANGED trips
       ELSE IF ~AssignedFound(d, v)
         THEN /\ resp' = [Resp("start", d, 404) EXCEPT !.vehicle = v]
              /\ UNCHANGED trips
       ELSE IF ActiveTripsOf(d) # {}
         THEN /\ resp' = [Resp("start", d, 400) EXCEPT !.vehicle = v]
              /\ UNCHANGED trips
       ELSE \E id \in TripIds \ DOMAIN trips :
              /\ trips' = WithTrip(id, NewTrip(d, v, vehicles[v]))
              /\ resp' = [Resp("start", d, 201) EXCEPT !.vehicle = v, !.trip = id]
    /\ UNCHANGED <<vehicles, bookings, offences, otp_storage, now, inflight, verified, users>>

\* Trip.objects.get(id=trip_id, driver=request.user, is_active=True) finds a row.
ActiveTripFound(d, t) ==
    t \in DOMAIN trips /\ trips[t].driver = d /\ trips[t].is_active

\* EndTripView.post with the trip looked up by id and is_active only.
EndTrip_AnyDriver(d, t) ==
    /\ IF ~(t \in DOMAIN trips /\ trips[t].is_active)
         THEN /\ resp' = [Resp("end", d, 404) EXCEPT !.trip = t]
              /\ UNCHANGED <<trips, vehicles>>
       ELSE /\ trips' = [trips EXCEPT ![t].is_active = FALSE, ![t].end_time = now]
            /\ vehicles' = [vehicles EXCEPT ![trips[t].vehicle].current_location = EmptyLocation]
            /\ resp' = [Resp("end", d, 200) EXCEPT !.trip = t]
    /\ UNCHANGED <<bookings, offences, otp_storage, now, inflight, verified, users>>

\* EndTripView.post as one request served alone.
EndTrip(d, t) ==
    /\ IF ~ActiveTripFound(d, t)
         THEN /\ resp' = [Resp("end", d, 404) EXCEPT !.trip = t]
              /\ UNCHANGED <<trips, vehicles>>
       ELSE /\ trips' = [trips EXCEPT ![t].is_active = FALSE, ![t].end_time = now]
            /\ vehicles' = [vehicles EXCEPT ![trips[t].vehicle].current_location = EmptyLocation]
            /\ resp' = [Resp("end", d, 200) EXCEPT !.trip = t]
    /\ UNCHANGED <<bookings, offences, otp_storage, now, inflight, verified, users>>

-----------------------------------------------------------------------------
(* The trip tracker, every request served alone *)

NextTrips ==
    \/ \E d \in Drivers, v \in {"a1", "b1"} : AssignVehicle(d, v)
    \/ \E d \in Drivers, v \in {"a1", "b1"} : ReleaseVehicle(d, v)
    \/ \E d \in Drivers, v \in {"a1", "b1", NULL} : StartTrip(d, v)
    \/ \E d \in Drivers, t \in TripIds : EndTrip(d, t)
    \/ ReceiveGPS("imei-b1", 1, Lng, 35, 0)

SpecTrips == Init /\ [][NextTrips]_vars

-----------------------------------------------------------------------------
(* The admin deleting vehicles that trips and bookings refer to *)

NextFleetAdmin ==
    \/ \E d \in Drivers, v \in {"a1", "b1"} : AssignVehicle(d, v)
    \/ \E d \in Drivers, v \in {"a1", "b1"} : StartTrip(d, v)
    \/ \E d \in Drivers, t \in TripIds : EndTrip(d, t)
    \/ BookAmbulance("STU1", NULL, "p1", UserLocation(2, Lng))
    \/ \E d \in Drivers, b \in BookingIds : AcceptBooking(d, b)
    \/ \E v \in {"a1", "b1", UnknownVehicle} : DeleteVehicle(v)

SpecFleetAdmin == Init /\ [][NextFleetAdmin]_vars

-----------------------------------------------------------------------------
(* The offences of the bus under the admin's requests. Only the users that *)
(* have a row can authenticate as a driver.                                *)

NextOffences ==
    \/ \E d \in users : AssignVehicle(d, "b1")
    \/ \E d \in users : ReleaseVehicle(d, "b1")
    \/ \E speed \in {35, 45} :
          Len(offences) < MaxOffences /\ ReceiveGPS("imei-b1", 1, Lng, speed, 7)
    \/ \E i \in 1..MaxOffences : MarkOffencePaid(i)
    \/ \E i \in 1..MaxOffences : DeleteOffence(i)
    \/ DeleteVehicle("b1")
    \/ \E d \in Drivers : DeleteDriver(d)

SpecOffences == Init /\ [][NextOffences]_vars

-----------------------------------------------------------------------------
(* Out of station *)

\* The JSON values a request sends as is_out_of_station; None is an absent key.
JsonValues == {"None", "True", "False", "'false'", "0"}

\* bool(x) of a JSON value: a non-empty string is true, "false" included.
Bool(x) == x \notin {"None", "False", "0"}

\* MarkOutOfStationView.post resetting the location of the vehicle it marks.
MarkOutOfStation_ClearsLocation(d, v, is_out) ==
    /\ IF is_out = "None"
         THEN /\ resp' = [Resp("out_of_station", d, 400) EXCEPT !.vehicle = v]
              /\ UNCHANGED vehicles
       ELSE IF ~AssignedFound(d, v)
         THEN /\ resp' = [Resp("out_of_station", d, 404) EXCEPT !.vehicle = v]
              /\ UNCHANGED vehicles
       ELSE /\ vehicles' = [vehicles EXCEPT ![v].is_out_of_station = Bool(is_out),
                                            ![v].current_location = EmptyLocation]
            /\ resp' = [Resp("out_of_station", d, 200) EXCEPT !.vehicle = v]
    /\ UNCHANGED <<bookings, trips, offences, otp_storage, now, inflight, verified, users>>

\* MarkOutOfStationView.post
MarkOutOfStation(d, v, is_out) ==
    /\ IF is_out = "None"
         THEN /\ resp' = [Resp("out_of_station", d, 400) EXCEPT !.vehicle = v]
              /\ UNCHANGED vehicles
       ELSE IF ~AssignedFound(d, v)
         THEN /\ resp' = [Resp("out_of_station", d, 404) EXCEPT !.vehicle = v]
              /\ UNCHANGED vehicles
       ELSE /\ vehicles' = [vehicles EXCEPT ![v].is_out_of_station = Bool(is_out)]
            /\ resp' = [Resp("out_of_station", d, 200) EXCEPT !.vehicle = v]
    /\ UNCHANGED <<bookings, trips, offences, otp_storage, now, inflight, verified, users>>

\* Trip.objects.filter(is_active=True, vehicle_type="bus")
ActiveBusTrips == {t \in DOMAIN trips : trips[t].is_active /\ trips[t].vehicle_type = "bus"}

\* ActiveBusesView.get: the body of the response.
ActiveBusesData ==
    LET all_buses == {v \in DOMAIN vehicles : vehicles[v].vehicle_type = "bus"}
    IN [buses |-> ActiveBusTrips,
        all_out_of_station |->
            /\ ActiveBusTrips = {}
            /\ all_buses # {}
            /\ \A v \in all_buses : vehicles[v].is_out_of_station]

\* ActiveBusesView.get: the vehicle of every active bus trip that is marked
\* out of station is marked in station and saved.
ActiveBuses ==
    /\ vehicles' = [v \in DOMAIN vehicles |->
                       IF \E t \in ActiveBusTrips : trips[t].vehicle = v
                       THEN [vehicles[v] EXCEPT !.is_out_of_station = FALSE]
                       ELSE vehicles[v]]
    /\ resp' = [Resp("active_buses", NULL, 200) EXCEPT !.data = ActiveBusesData]
    /\ UNCHANGED <<bookings, trips, offences, otp_storage, now, inflight, verified, users>>

\* Drivers marking the bus while trips start and end and the public listing is read.
NextStation ==
    \/ \E d \in Drivers : AssignVehicle(d, "b1")
    \/ \E d \in Drivers : ReleaseVehicle(d, "b1")
    \/ \E d \in Drivers : StartTrip(d, "b1")
    \/ \E d \in Drivers, t \in TripIds : EndTrip(d, t)
    \/ \E d \in Drivers, v \in {"b1", UnknownVehicle}, is_out \in JsonValues :
          MarkOutOfStation(d, v, is_out)
    \/ ActiveBuses
    \/ \E latitude \in {1, 2} : ReceiveGPS("imei-b1", latitude, Lng, 35, 7)

SpecStation == Init /\ [][NextStation]_vars

-----------------------------------------------------------------------------
(* Requests served concurrently: one step per database statement. A step    *)
(* that ends a request returns its response; the others return none.        *)

Free(r) == inflight[r].pc \in {"idle", "done"}

Finish(r, response) ==
    /\ inflight' = [inflight EXCEPT ![r] = Done(response)]
    /\ resp' = response

Continue(r, locals) ==
    /\ inflight' = [inflight EXCEPT ![r] = locals]
    /\ resp' = NoResp

\* AcceptBookingView.post, lines 311-314: fetch the pending booking.
AcceptFetch(r, d, b) ==
    /\ Free(r)
    /\ IF ~PendingFound(b)
         THEN Finish(r, [Resp("accept", d, 404) EXCEPT !.booking = b])
         ELSE Continue(r, [pc |-> "accept_lookup", user |-> d, booking |-> b,
                           row |-> bookings[b]])
    /\ UNCHANGED <<vehicles, bookings, trips, offences, otp_storage, now, verified, users>>

\* AcceptBookingView.post, lines 317-344: look the ambulance up, issue the OTP
\* and fill the in-memory booking in.
AcceptLookup(r) ==
    /\ inflight[r].pc = "accept_lookup"
    /\ LET d == inflight[r].user
           b == inflight[r].booking
       IN IF AmbulancesOf(d) = {}
            THEN /\ Finish(r, [Resp("accept", d, 400) EXCEPT !.booking = b])
                 /\ UNCHANGED otp_storage
            ELSE \E otp \in generate_otp(OtpLength) :
                   LET a == FirstVehicle(AmbulancesOf(d)) IN
                   /\ otp_storage' = send_otp_mock(otp_storage, inflight[r].row.phone, otp)
                   /\ Continue(r, [pc |-> "accept_save", user |-> d, booking |-> b,
                                   otp |-> otp,
                                   row |-> AcceptedRow(inflight[r].row, d, a, vehicles[a], otp)])
    /\ UNCHANGED <<vehicles, bookings, trips, offences, now, verified, users>>

\* AcceptBookingView.post, lines 345-351: booking.save() and the response.
AcceptSave(r) ==
    /\ inflight[r].pc = "accept_save"
    /\ bookings' = [bookings EXCEPT ![inflight[r].booking] = inflight[r].row]
    /\ Finish(r, [Resp("accept", inflight[r].user, 200) EXCEPT
                     !.booking = inflight[r].booking, !.otp = inflight[r].otp])
    /\ UNCHANGED <<vehicles, trips, offences, otp_storage, now, verified, users>>

NextAcceptRace ==
    \/ \E d \in Drivers, v \in {"a1", "a2"} : AssignVehicle(d, v)
    \/ \E p \in Phones : BookAmbulance("STU1", NULL, p, UserLocation(2, Lng))
    \/ \E r \in Requests, d \in Drivers, b \in BookingIds : AcceptFetch(r, d, b)
    \/ \E r \in Requests : AcceptLookup(r)
    \/ \E r \in Requests : AcceptSave(r)

SpecAcceptRace == Init /\ [][NextAcceptRace]_vars

\* StartTripView.post, lines 233-240: fetch the vehicle assigned to the caller.
StartFetchVehicle(r, d, v) ==
    /\ Free(r)
    /\ IF ~AssignedFound(d, v)
         THEN Finish(r, [Resp("start", d, 404) EXCEPT !.vehicle = v])
         ELSE Continue(r, [pc |-> "start_check", user |-> d, vehicle |-> v,
                           row |-> vehicles[v]])
    /\ UNCHANGED <<vehicles, bookings, trips, offences, otp_storage, now, verified, users>>

\* StartTripView.post, lines 243-244: the active-trip check.
StartCheckActive(r) ==
    /\ inflight[r].pc = "start_check"
    /\ IF ActiveTripsOf(inflight[r].user) # {}
         THEN Finish(r, [Resp("start", inflight[r].user, 400) EXCEPT
                            !.vehicle = inflight[r].vehicle])
         ELSE Continue(r, [inflight[r] EXCEPT !.pc = "start_create"])
    /\ UNCHANGED <<vehicles, bookings, trips, offences, otp_storage, now, verified, users>>

\* StartTripView.post, lines 246-255: create the trip.
StartCreate(r) ==
    /\ inflight[r].pc = "start_create"
    /\ \E id \in TripIds \ DOMAIN trips :
          /\ trips' = WithTrip(id, NewTrip(inflight[r].user, inflight[r].vehicle, inflight[r].row))
          /\ Finish(r, [Resp("start", inflight[r].user, 201) EXCEPT
                           !.vehicle = inflight[r].vehicle, !.trip = id])
    /\ UNCHANGED <<vehicles, bookings, offences, otp_storage, now, verified, users>>

NextTripRace ==
    \/ \E d \in Drivers : AssignVehicle(d, "b1")
    \/ \E d \in Drivers : ReleaseVehicle(d, "b1")
    \/ \E r \in Requests, d \in Drivers : StartFetchVehicle(r, d, "b1")
    \/ \E r \in Requests : StartCheckActive(r)
    \/ \E r \in Requests : StartCreate(r)
    \/ \E d \in Drivers, t \in TripIds : EndTrip(d, t)

SpecTripRace == Init /\ [][NextTripRace]_vars

\* AssignVehicleView.post, lines 195-201: fetch the vehicle and test the
\* assignee of the fetched row.
AssignFetch(r, d, v) ==
    /\ Free(r)
    /\ IF v \notin DOMAIN vehicles
         THEN Finish(r, [Resp("assign", d, 404) EXCEPT !.vehicle = v])
       ELSE IF vehicles[v].assigned_to # NULL
         THEN Finish(r, [Resp("assign", d, 400) EXCEPT !.vehicle = v])
       ELSE Continue(r, [pc |-> "assign_save", user |-> d, vehicle |-> v,
                         row |-> vehicles[v]])
    /\ UNCHANGED <<vehicles, bookings, trips, offences, otp_storage, now, verified, users>>

\* AssignVehicleView.post, lines 203-207: set the assignee on the fetched row,
\* vehicle.save() and the response.
AssignSave(r) ==
    /\ inflight[r].pc = "assign_save"
    /\ vehicles' = [vehicles EXCEPT ![inflight[r].vehicle] =
                        [inflight[r].row EXCEPT
                            !.assigned_to = inflight[r].user,
                            !.assigned_driver_name = UserName(inflight[r].user)]]
    /\ Finish(r, [Resp("assign", inflight[r].user, 200) EXCEPT !.vehicle = inflight[r].vehicle])
    /\ UNCHANGED <<bookings, trips, offences, otp_storage, now, verified, users>>

NextAssignRace ==
    \/ \E r \in Requests, d \in Drivers, v \in {"a1", "b1"} : AssignFetch(r, d, v)
    \/ \E r \in Requests : AssignSave(r)
    \/ \E d \in Drivers, v \in {"a1", "b1"} : ReleaseVehicle(d, v)

SpecAssignRace == Init /\ [][NextAssignRace]_vars

\* ReceiveGPSView.post, lines 782-801: validate, fetch the vehicle by IMEI and
\* build the location.
GpsFetch(r, imei, latitude, longitude, speed, timestamp) ==
    /\ Free(r)
    /\ IF imei = NULL \/ latitude = 0 \/ longitude = 0 \/ speed = 0
         THEN Finish(r, GpsResp(400, GpsData(imei, latitude, longitude, speed, timestamp)))
       ELSE IF VehiclesByImei(imei) = {}
         THEN Finish(r, GpsResp(404, GpsData(imei, latitude, longitude, speed, timestamp)))
       ELSE LET v == CHOOSE x \in VehiclesByImei(imei) : TRUE
            IN Continue(r, [pc |-> "gps_save", vehicle |-> v, row |-> vehicles[v],
                            data |-> GpsData(imei, latitude, longitude, speed, timestamp),
                            location |-> Location(latitude, longitude, speed,
                                                  IF timestamp # 0 THEN timestamp ELSE now)])
    /\ UNCHANGED <<vehicles, bookings, trips, offences, otp_storage, now, verified, users>>

\* ReceiveGPSView.post, lines 803-804: vehicle.save() writes every column of
\* the fetched row, current_location replaced.
GpsSave(r) ==
    /\ inflight[r].pc = "gps_save"
    /\ LET v == inflight[r].vehicle
           row == [inflight[r].row EXCEPT !.current_location = inflight[r].location]
       IN /\ vehicles' = [vehicles EXCEPT ![v] = row]
          /\ IF row.vehicle_type = "bus" /\ inflight[r].data.speed > CampusSpeedLimit
               THEN Continue(r, [inflight[r] EXCEPT !.pc = "gps_offence", !.row = row])
             ELSE IF row.vehicle_type = "ambulance"
               THEN Continue(r, [inflight[r] EXCEPT !.pc = "gps_booking", !.row = row])
             ELSE Finish(r, [GpsResp(200, inflight[r].data) EXCEPT !.vehicle = v])
    /\ UNCHANGED <<bookings, trips, offences, otp_storage, now, verified, users>>

\* ReceiveGPSView.post, lines 807-820: the offence of a bus over the limit,
\* its driver taken from the fetched row.
GpsOffence(r) ==
    /\ inflight[r].pc = "gps_offence"
    /\ offences' = Append(offences, BusOffence(inflight[r].vehicle, inflight[r].row,
                                               inflight[r].data.speed, inflight[r].location))
    /\ Finish(r, [GpsResp(200, inflight[r].data) EXCEPT !.vehicle = inflight[r].vehicle])
    /\ UNCHANGED <<vehicles, bookings, trips, otp_storage, now, verified, users>>

\* ReceiveGPSView.post, lines 823-828: fetch the first in-flight booking of
\* the ambulance.
GpsBookingFetch(r) ==
    /\ inflight[r].pc = "gps_booking"
    /\ LET v == inflight[r].vehicle
       IN IF ActiveBookingsOn(v) # {} /\ bookings[First(ActiveBookingsOn(v))].user_location.present
            THEN Continue(r, [inflight[r] EXCEPT !.pc = "gps_booking_save",
                                                 !.row = bookings[First(ActiveBookingsOn(v))]]
                                @@ [booking |-> First(ActiveBookingsOn(v))])
            ELSE Finish(r, [GpsResp(200, inflight[r].data) EXCEPT !.vehicle = v])
    /\ UNCHANGED <<vehicles, bookings, trips, offences, otp_storage, now, verified, users>>

\* ReceiveGPSView.post, lines 829-839: active_booking.save() writes every
\* column of the fetched booking, eta_minutes replaced.
GpsBookingSave(r) ==
    /\ inflight[r].pc = "gps_booking_save"
    /\ bookings' = [bookings EXCEPT ![inflight[r].booking] =
                        [inflight[r].row EXCEPT
                            !.eta_minutes = RefreshedEta(inflight[r].location, inflight[r].row)]]
    /\ Finish(r, [GpsResp(200, inflight[r].data) EXCEPT !.vehicle = inflight[r].vehicle])
    /\ UNCHANGED <<vehicles, trips, offences, otp_storage, now, verified, users>>

\* EndTripView.post, lines 262-265: fetch the caller's active trip.
EndFetch(r, d, t) ==
    /\ Free(r)
    /\ IF ~ActiveTripFound(d, t)
         THEN Finish(r, [Resp("end", d, 404) EXCEPT !.trip = t])
         ELSE Continue(r, [pc |-> "end_save", user |-> d, trip |-> t, row |-> trips[t]])
    /\ UNCHANGED <<vehicles, bookings, trips, offences, otp_storage, now, verified, users>>

\* EndTripView.post, lines 267-269: trip.save() of the fetched trip, ended.
EndSave(r) ==
    /\ inflight[r].pc = "end_save"
    /\ trips' = [trips EXCEPT ![inflight[r].trip] =
                    [inflight[r].row EXCEPT !.is_active = FALSE, !.end_time = now]]
    /\ Continue(r, [inflight[r] EXCEPT !.pc = "end_vehicle"])
    /\ UNCHANGED <<vehicles, bookings, offences, otp_storage, now, verified, users>>

\* EndTripView.post, line 272: trip.vehicle fetches the vehicle row.
EndVehicleFetch(r) ==
    /\ inflight[r].pc = "end_vehicle"
    /\ Continue(r, [pc |-> "end_vehicle_save", user |-> inflight[r].user,
                    trip |-> inflight[r].trip, vehicle |-> inflight[r].row.vehicle,
                    row |-> vehicles[inflight[r].row.vehicle]])
    /\ UNCHANGED <<vehicles, bookings, trips, offences, otp_storage, now, verified, users>>

\* EndTripView.post, lines 272-275: the location cleared on the fetched row,
\* trip.vehicle.save() and the response.
EndVehicleSave(r) ==
    /\ inflight[r].pc = "end_vehicle_save"
    /\ vehicles' = [vehicles EXCEPT ![inflight[r].vehicle] =
                        [inflight[r].row EXCEPT !.current_location = EmptyLocation]]
    /\ Finish(r, [Resp("end", inflight[r].user, 200) EXCEPT !.trip = inflight[r].trip])
    /\ UNCHANGED <<bookings, trips, offences, otp_storage, now, verified, users>>

\* Telemetry (on connection r1) and end-trip (on r2) racing the registry on
\* the bus; the samples are under the speed limit.
NextVehicleRace ==
    \/ \E d \in Drivers : AssignVehicle(d, "b1")
    \/ \E d \in Drivers : ReleaseVehicle(d, "b1")
    \/ \E d \in Drivers, is_out \in {"True", "False"} : MarkOutOfStation(d, "b1", is_out)
    \/ \E d \in Drivers : StartTrip(d, "b1")
    \/ GpsFetch("r1", "imei-b1", 1, Lng, 35, 7)
    \/ GpsSave("r1")
    \/ \E d \in Drivers, t \in TripIds : EndFetch("r2", d, t)
    \/ EndSave("r2")
    \/ EndVehicleFetch("r2")
    \/ EndVehicleSave("r2")

SpecVehicleRace == Init /\ [][NextVehicleRace]_vars

\* VerifyOTPView.post, lines 369-383: fetch the caller's booking by id and otp.
VerifyFetch(r, d, b, otp) ==
    /\ Free(r)
    /\ otp # NoOtp
    /\ IF ~OtpFound(d, b, otp)
         THEN Finish(r, [Resp("verify", d, 400) EXCEPT !.booking = b, !.otp = otp])
         ELSE Continue(r, [pc |-> "verify_save", user |-> d, booking |-> b, otp |-> otp,
                           row |-> bookings[b]])
    /\ UNCHANGED <<vehicles, bookings, trips, offences, otp_storage, now, verified, users>>

\* VerifyOTPView.post, lines 384-387: booking.save() writes every column of
\* the fetched booking, status replaced.
VerifySave(r) ==
    /\ inflight[r].pc = "verify_save"
    /\ bookings' = [bookings EXCEPT ![inflight[r].booking] =
                        [inflight[r].row EXCEPT !.status = "in_progress"]]
    /\ verified' = verified \cup {inflight[r].booking}
    /\ Finish(r, [Resp("verify", inflight[r].user, 200) EXCEPT
                     !.booking = inflight[r].booking, !.otp = inflight[r].otp])
    /\ UNCHANGED <<vehicles, trips, offences, otp_storage, now, users>>

\* Telemetry (on connection r1) and OTP verification (on r2) racing the
\* driver's abort and complete of the booking.
NextBookingRace ==
    \/ AssignVehicle("d1", "a1")
    \/ BookAmbulance("STU1", NULL, "p1", UserLocation(2, Lng))
    \/ \E d \in Drivers, b \in BookingIds : AcceptBooking(d, b)
    \/ \E d \in Drivers, b \in BookingIds : AbortBooking(d, b)
    \/ \E d \in Drivers, b \in BookingIds : CompleteBooking(d, b)
    \/ \E latitude \in {1, 5} : GpsFetch("r1", "imei-a1", latitude, Lng, 35, 7)
    \/ GpsSave("r1")
    \/ GpsBookingFetch("r1")
    \/ GpsBookingSave("r1")
    \/ \E d \in Drivers, b \in BookingIds, otp \in generate_otp(OtpLength) :
          VerifyFetch("r2", d, b, otp)
    \/ VerifySave("r2")

SpecBookingRace == Init /\ [][NextBookingRace]_vars

-----------------------------------------------------------------------------
(* Properties of the booking lifecycle (Spec) *)

\* C2: an accept of a pending booking by a driver who holds an ambulance
\* returns 200; the booking is then accepted with driver = the caller and
\* vehicle = an ambulance of the caller, and the otp of the response is the otp
\* on the booking and the code in the ledger under the booking's phone.
C2_AcceptSucceeds ==
    [][(resp'.op = "accept" /\ PendingFound(resp'.booking) /\ AmbulancesOf(resp'.user) # {})
        => LET b == resp'.booking
               d == resp'.user
           IN /\ resp'.code = 200
              /\ resp'.otp # NoOtp
              /\ bookings'[b].status = "accepted"
              /\ bookings'[b].driver = d
              /\ bookings'[b].vehicle \in AmbulancesOf(d)
              /\ bookings'[b].otp = resp'.otp
              /\ bookings'[b].phone \in DOMAIN otp_storage'
              /\ otp_storage'[bookings'[b].phone].otp = resp'.otp]_vars

C2_Witness ==
    /\ resp.op = "accept" /\ resp.code = 200
    /\ resp.booking \in DOMAIN bookings
    /\ bookings[resp.booking].status = "accepted"
    /\ bookings[resp.booking].driver = resp.user

\* C3: an accept of a booking that is not pending, or by a driver with no
\* ambulance, returns an error (404 not pending, 400 no ambulance) and changes
\* neither the bookings nor the ledger.
C3_RejectedAcceptChangesNothing ==
    [][(resp'.op = "accept" /\ (~PendingFound(resp'.booking) \/ AmbulancesOf(resp'.user) = {}))
        => /\ resp'.code = (IF ~PendingFound(resp'.booking) THEN 404 ELSE 400)
           /\ bookings' = bookings
           /\ otp_storage' = otp_storage]_vars

C3_Witness ==
    /\ resp.op = "accept" /\ resp.code = 400
    /\ resp.booking \in DOMAIN bookings
    /\ bookings[resp.booking].status = "pending"
    /\ AmbulancesOf(resp.user) = {}

\* C7: a verifyOtp by the booking's driver with a code other than the stored
\* otp, or by any other driver with any code, returns 400 and changes no
\* booking.
C7_BadVerifyChangesNothing ==
    [][(/\ resp'.op = "verify"
        /\ resp'.booking \in DOMAIN bookings
        /\ \/ bookings[resp'.booking].driver # resp'.user
           \/ bookings[resp'.booking].otp # resp'.otp)
        => (resp'.code = 400 /\ bookings' = bookings)]_vars

C7_Witness ==
    /\ resp.op = "verify" /\ resp.code = 400
    /\ resp.booking \in DOMAIN bookings
    /\ bookings[resp.booking].status = "accepted"
    /\ bookings[resp.booking].driver # resp.user
    /\ bookings[resp.booking].otp = resp.otp

\* C4: a completed booking has had its OTP verified: its status became
\* in_progress through a successful verifyOtp before it became completed.
C4_CompletedWasVerified ==
    \A b \in DOMAIN bookings : bookings[b].status = "completed" => b \in verified

\* The transitions of the booking state machine.
LegalTransitions ==
    {<<"pending", "accepted">>, <<"accepted", "in_progress">>,
     <<"in_progress", "completed">>, <<"pending", "cancelled">>,
     <<"accepted", "cancelled">>}

\* C5: a booking's status changes only along pending->accepted,
\* accepted->in_progress, in_progress->completed, pending->cancelled and
\* accepted->cancelled.
C5_OnlyLegalTransitions ==
    [][\A b \in DOMAIN bookings :
          bookings'[b].status # bookings[b].status
            => <<bookings[b].status, bookings'[b].status>> \in LegalTransitions]_vars

\* C6: once a booking is completed or cancelled its status never changes.
C6_TerminalStatesStay ==
    [][\A b \in DOMAIN bookings :
          bookings[b].status \in {"completed", "cancelled"}
            => bookings'[b].status = bookings[b].status]_vars

\* C8: after one verifyOtp has succeeded on a booking, a later verifyOtp on
\* it, with the same code, leaves its status as it is.
C8_VerifyOnlyOnce ==
    [][(resp'.op = "verify" /\ resp'.booking \in verified)
        => bookings'[resp'.booking].status = bookings[resp'.booking].status]_vars

\* C24: an abort or a complete by a driver who is not the booking's driver
\* (the booking has another driver, has none because it is pending, or does
\* not exist) returns the success message (200) and leaves every booking as
\* it is.
C24_NotOwnerNoOp ==
    [][(/\ resp'.op \in {"abort", "complete"}
        /\ \/ resp'.booking \notin DOMAIN bookings
           \/ bookings[resp'.booking].driver # resp'.user)
        => (resp'.code = 200 /\ bookings' = bookings)]_vars

\* A driver's abort of a booking accepted by the other driver has been
\* answered and the booking is still accepted.
C24_Witness ==
    /\ resp.op = "abort" /\ resp.code = 200
    /\ resp.booking \in DOMAIN bookings
    /\ bookings[resp.booking].driver \in Drivers \ {resp.user}
    /\ bookings[resp.booking].status = "accepted"

\* C25: an abort by the booking's driver sets its status to cancelled and a
\* complete by the booking's driver sets it to completed, whatever the status
\* was, and changes nothing else in the bookings.
C25_OwnerForcesStatus ==
    [][(/\ resp'.op \in {"abort", "complete"}
        /\ resp'.booking \in DOMAIN bookings
        /\ bookings[resp'.booking].driver = resp'.user)
        => /\ resp'.code = 200
           /\ bookings' = [bookings EXCEPT ![resp'.booking].status =
                              IF resp'.op = "abort" THEN "cancelled" ELSE "completed"]]_vars

\* The driver of a booking whose OTP was verified has aborted it.
C25_Witness ==
    /\ resp.op = "abort" /\ resp.code = 200
    /\ resp.booking \in verified
    /\ bookings[resp.booking].driver = resp.user
    /\ bookings[resp.booking].status = "cancelled"

\* C26: a pending booking can be cancelled directly: for each pending booking
\* there is a driver whose abort request leaves it cancelled.
C26_PendingCanBeCancelled ==
    \A b \in DOMAIN bookings :
        bookings[b].status = "pending"
          => \E d \in Drivers :
                ENABLED (AbortBooking(d, b) /\ bookings'[b].status = "cancelled")

-----------------------------------------------------------------------------
(* Properties of concurrent requests and of the trip tracker *)

\* The connections whose last response is a successful accept of booking b.
AcceptWinners(b) ==
    {r \in Requests : /\ inflight[r].pc = "done"
                      /\ inflight[r].resp.op = "accept"
                      /\ inflight[r].resp.code = 200
                      /\ inflight[r].resp.booking = b}

\* C1: of the accept requests of different drivers for one pending booking at
\* most one returns success, and once no request is in flight the booking
\* carries the driver and the otp of the one that did.
C1_OneAcceptWins ==
    \A b \in DOMAIN bookings :
        /\ Cardinality({inflight[r].resp.user : r \in AcceptWinners(b)}) <= 1
        /\ \A r \in AcceptWinners(b) :
              (\A q \in Requests : Free(q))
                => /\ bookings[b].driver = inflight[r].resp.user
                   /\ bookings[b].otp = inflight[r].resp.otp

\* C9: each driver has at most one active trip.
C9_OneActiveTripPerDriver ==
    \A d \in Drivers : Cardinality(ActiveTripsOf(d)) <= 1

\* Trip.objects.filter(vehicle=v, is_active=True)
ActiveTripsOn(v) == {t \in DOMAIN trips : trips[t].vehicle = v /\ trips[t].is_active}

\* C10: each vehicle has at most one active trip.
C10_OneActiveTripPerVehicle ==
    \A v \in DOMAIN vehicles : Cardinality(ActiveTripsOn(v)) <= 1

-----------------------------------------------------------------------------
(* Properties of the trip tracker, every request served alone (SpecTrips) *)

\* The trips table after start has created exactly one row: an active trip of
\* driver d on vehicle v under a new id.
StartedOne(d, v, id) ==
    /\ id \notin DOMAIN trips
    /\ DOMAIN trips' = (DOMAIN trips) \cup {id}
    /\ \A t \in DOMAIN trips : trips'[t] = trips[t]
    /\ trips'[id].driver = d /\ trips'[id].vehicle = v /\ trips'[id].is_active

\* C11 as stated: a start by a driver who has an active trip returns Conflict
\* (400) and creates no trip; a start for a vehicle not assigned to the caller
\* fails and creates no trip; a start by a driver with no active trip (their
\* earlier trips ended) on a vehicle assigned to them returns 201 and creates
\* that one trip.
C11_StartAsStated ==
    [][(resp'.op = "start" /\ resp'.vehicle # NULL)
        => LET d == resp'.user
               v == resp'.vehicle
           IN /\ ActiveTripsOf(d) # {} => (resp'.code = 400 /\ trips' = trips)
              /\ ~AssignedFound(d, v) => (resp'.code \in {400, 404} /\ trips' = trips)
              /\ (ActiveTripsOf(d) = {} /\ AssignedFound(d, v))
                    => (resp'.code = 201 /\ StartedOne(d, v, resp'.trip))]_vars

\* C11: a start for a vehicle not assigned to the caller returns 404 and
\* creates no trip, whether or not the caller has an active trip; a start on a
\* vehicle assigned to the caller returns Conflict (400) and creates no trip
\* while the caller has an active trip, and returns 201 and creates that one
\* trip once the caller has none (their earlier trips ended).
C11_StartChecksVehicleFirst ==
    [][(resp'.op = "start" /\ resp'.vehicle # NULL)
        => LET d == resp'.user
               v == resp'.vehicle
           IN /\ ~AssignedFound(d, v) => (resp'.code = 404 /\ trips' = trips)
              /\ (AssignedFound(d, v) /\ ActiveTripsOf(d) # {})
                    => (resp'.code = 400 /\ trips' = trips)
              /\ (AssignedFound(d, v) /\ ActiveTripsOf(d) = {})
                    => (resp'.code = 201 /\ StartedOne(d, v, resp'.trip))]_vars

\* A driver whose first trip has ended has started a second one.
C11_Witness ==
    /\ resp.op = "start" /\ resp.code = 201
    /\ resp.trip \in DOMAIN trips
    /\ trips[resp.trip].is_active
    /\ \E t \in DOMAIN trips :
          /\ trips[t].driver = resp.user
          /\ ~trips[t].is_active
          /\ trips[t].end_time # NoTime

\* C12: an end returns 200 only for a trip that is active and belongs to the
\* caller; it then leaves the trip inactive with end_time set to the clock and
\* the trip's vehicle with an empty current_location, and changes no other
\* trip or vehicle. Any other end (unknown id, another driver's trip, a trip
\* already ended) returns 404 and changes no trip and no vehicle.
C12_EndTrip ==
    [][resp'.op = "end"
        => LET d == resp'.user
               t == resp'.trip
           IN IF ActiveTripFound(d, t)
                THEN /\ resp'.code = 200
                     /\ ~trips'[t].is_active
                     /\ trips'[t].end_time = now /\ trips'[t].end_time # NoTime
                     /\ vehicles'[trips[t].vehicle].current_location = EmptyLocation
                     /\ \A u \in DOMAIN trips \ {t} : trips'[u] = trips[u]
                     /\ \A w \in DOMAIN vehicles \ {trips[t].vehicle} : vehicles'[w] = vehicles[w]
                ELSE /\ resp'.code = 404
                     /\ trips' = trips
                     /\ vehicles' = vehicles]_vars

\* A driver has ended their own trip on a vehicle.
C12_Witness ==
    /\ resp.op = "end" /\ resp.code = 200
    /\ resp.trip \in DOMAIN trips
    /\ trips[resp.trip].driver = resp.user
    /\ ~trips[resp.trip].is_active
    /\ trips[resp.trip].end_time # NoTime
    /\ vehicles[trips[resp.trip].vehicle].current_location = EmptyLocation

-----------------------------------------------------------------------------
(* Properties of the vehicle registry *)

\* C13: of the assign requests of different drivers for one vehicle at most
\* one returns success (no assign returns success for a vehicle that another
\* driver holds when the response is given), and a vehicle assigned to one
\* driver becomes assigned to another only after a release has made it
\* unassigned.
C13_AssignNeverOverwrites ==
    [][/\ (resp'.op = "assign" /\ resp'.code = 200)
            => vehicles[resp'.vehicle].assigned_to \in {NULL, resp'.user}
       /\ \A v \in DOMAIN vehicles :
            vehicles[v].assigned_to # NULL
              => vehicles'[v].assigned_to \in {vehicles[v].assigned_to, NULL}]_vars

\* Vehicle.objects.filter(assigned_to=d, vehicle_type=type)
HeldBy(d, type) ==
    {v \in DOMAIN vehicles : vehicles[v].assigned_to = d /\ vehicles[v].vehicle_type = type}

\* C14: a driver is assigned at most one bus and at most one ambulance.
C14_OneVehiclePerType ==
    \A d \in Drivers : \A type \in {"bus", "ambulance"} : Cardinality(HeldBy(d, type)) <= 1

\* C15: an assign of a vehicle that is assigned returns Conflict (400) and a
\* release by a driver who is not the vehicle's assignee returns Forbidden
\* (403), each leaving every vehicle (assignee and driver name included) as it
\* was; a release by the assignee returns 200, clears assigned_to and
\* assigned_driver_name of that vehicle and changes nothing else.
C15_RejectedRegistryChangesNothing ==
    [][(resp'.op \in {"assign", "release"} /\ resp'.vehicle \in DOMAIN vehicles)
        => LET d == resp'.user
               v == resp'.vehicle
           IN /\ (resp'.op = "assign" /\ vehicles[v].assigned_to # NULL)
                    => (resp'.code = 400 /\ vehicles' = vehicles)
              /\ (resp'.op = "release" /\ vehicles[v].assigned_to # d)
                    => (resp'.code = 403 /\ vehicles' = vehicles)
              /\ (resp'.op = "release" /\ vehicles[v].assigned_to = d)
                    => /\ resp'.code = 200
                       /\ vehicles' = [vehicles EXCEPT ![v].assigned_to = NULL,
                                                       ![v].assigned_driver_name = NULL]]_vars

\* A release of a vehicle that another driver holds has been refused.
C15_Witness ==
    /\ resp.op = "release" /\ resp.code = 403
    /\ resp.vehicle \in DOMAIN vehicles
    /\ vehicles[resp.vehicle].assigned_to \in Drivers \ {resp.user}
    /\ vehicles[resp.vehicle].assigned_driver_name = UserName(vehicles[resp.vehicle].assigned_to)

-----------------------------------------------------------------------------
(* Properties of telemetry ingestion (SpecTelemetry) *)

\* The location a GPS request stores: its values, and the clock where it
\* carries no timestamp.
SampleOf(data) ==
    Location(data.latitude, data.longitude, data.speed,
             IF data.timestamp # 0 THEN data.timestamp ELSE now)

\* C16: a receiveGps whose IMEI no vehicle has returns NotFound (404) and
\* changes no vehicle, offence or booking; a receiveGps whose IMEI a vehicle
\* has (registered from the start or added since) returns 200 with that
\* vehicle's id and leaves the vehicle's current_location equal to the sample.
C16_GpsByImei ==
    [][resp'.op = "gps"
        => IF VehiclesByImei(resp'.data.imei) = {}
             THEN /\ resp'.code = 404
                  /\ vehicles' = vehicles
                  /\ offences' = offences
                  /\ bookings' = bookings
             ELSE /\ resp'.code = 200
                  /\ resp'.vehicle \in VehiclesByImei(resp'.data.imei)
                  /\ vehicles'[resp'.vehicle].current_location = SampleOf(resp'.data)]_vars

\* C17: an accepted GPS sample (200) of a bus with speed > 40 appends exactly
\* one offence: bus_overspeed, unpaid, speed_limit 40, with the vehicle, the
\* driver the vehicle is assigned to and the speed of the sample; an accepted
\* sample with speed <= 40, or of an ambulance, leaves the offences as they are.
C17_OffenceIffBusOverLimit ==
    [][(resp'.op = "gps" /\ resp'.code = 200)
        => LET v == resp'.vehicle
               n == Len(offences)
           IN IF vehicles[v].vehicle_type = "bus" /\ resp'.data.speed > 40
                THEN /\ Len(offences') = n + 1
                     /\ SubSeq(offences', 1, n) = offences
                     /\ offences'[n + 1].offence_type = "bus_overspeed"
                     /\ ~offences'[n + 1].is_paid
                     /\ offences'[n + 1].speed_limit = 40
                     /\ offences'[n + 1].speed = resp'.data.speed
                     /\ offences'[n + 1].vehicle = v
                     /\ offences'[n + 1].driver = vehicles[v].assigned_to
                ELSE offences' = offences]_vars

\* An over-limit sample of a bus assigned to a driver has been booked to that
\* driver.
C17_Witness ==
    /\ resp.op = "gps" /\ resp.code = 200 /\ resp.data.speed > 40
    /\ vehicles[resp.vehicle].vehicle_type = "bus"
    /\ vehicles[resp.vehicle].assigned_to \in Drivers
    /\ Len(offences) >= 1
    /\ offences[Len(offences)].driver = vehicles[resp.vehicle].assigned_to
    /\ offences[Len(offences)].vehicle = resp.vehicle

\* C18: an accepted GPS sample with an explicit timestamp that equals the
\* sample the vehicle already stores (the same sample delivered again) leaves
\* every vehicle as it is, and for a bus over the limit it still appends one
\* more offence.
C18_RedeliveryKeepsLocationAddsOffence ==
    [][(/\ resp'.op = "gps" /\ resp'.code = 200
        /\ resp'.data.timestamp # 0
        /\ vehicles[resp'.vehicle].current_location = SampleOf(resp'.data))
        => /\ vehicles' = vehicles
           /\ (vehicles[resp'.vehicle].vehicle_type = "bus" /\ resp'.data.speed > 40)
                 => (/\ Len(offences') = Len(offences) + 1
                     /\ SubSeq(offences', 1, Len(offences)) = offences)]_vars

\* The same over-limit sample of a bus has been delivered twice and has left
\* two equal offences.
C18_Witness ==
    /\ resp.op = "gps" /\ resp.code = 200 /\ resp.data.timestamp # 0
    /\ vehicles[resp.vehicle].vehicle_type = "bus"
    /\ vehicles[resp.vehicle].current_location = SampleOf(resp.data)
    /\ Len(offences) >= 2
    /\ offences[Len(offences)] = offences[Len(offences) - 1]
    /\ offences[Len(offences)].location = SampleOf(resp.data)

\* C29: a receiveGps whose IMEI a vehicle has is never answered 400 (missing
\* fields), whatever numbers its latitude, longitude and speed are (0
\* included), and leaves that vehicle's current_location equal to the sample.
C29_ZeroValuesAccepted ==
    [][(resp'.op = "gps" /\ VehiclesByImei(resp'.data.imei) # {})
        => /\ resp'.code # 400
           /\ \A v \in VehiclesByImei(resp'.data.imei) :
                 vehicles'[v].current_location = SampleOf(resp'.data)]_vars

C19_EtaOnlyOnActiveBookingOfVehicle ==
    [][(resp'.op = "gps" /\ resp'.code = 200)
        => \A b \in DOMAIN bookings :
              bookings'[b] # bookings[b]
                => /\ vehicles[resp'.vehicle].vehicle_type = "ambulance"
                   /\ bookings[b].vehicle = resp'.vehicle
                   /\ bookings[b].status \in {"accepted", "in_progress"}
                   /\ bookings'[b] =
                        [bookings[b] EXCEPT !.eta_minutes = bookings'[b].eta_minutes]]_vars

\* A sample of an ambulance has arrived while a booking tied to it is
\* completed or cancelled and still carries the eta of another place.
C19_Witness ==
    /\ resp.op = "gps" /\ resp.code = 200
    /\ \E b \in DOMAIN bookings :
          /\ bookings[b].vehicle = resp.vehicle
          /\ bookings[b].status \in {"completed", "cancelled"}
          /\ bookings[b].eta_minutes # NoEta
          /\ bookings[b].eta_minutes #
                RefreshedEta(vehicles[resp.vehicle].current_location, bookings[b])

-----------------------------------------------------------------------------
(* Properties of the booking desk (SpecIntake) *)

\* C21: every create returns 201 and adds one booking that is pending with no
\* driver, vehicle or otp, with or without a student_name in the request and
\* for known and unknown registration ids; without a student_name the booking
\* carries the name of the user with that registration id, or "Unknown
\* Student" when there is none.
C21_CreateAlwaysSucceeds ==
    [][resp'.op = "create"
        => LET b == resp'.booking
               q == resp'.data
           IN /\ resp'.code = 201
              /\ b \notin DOMAIN bookings
              /\ DOMAIN bookings' = (DOMAIN bookings) \cup {b}
              /\ bookings'[b].status = "pending"
              /\ bookings'[b].driver = NULL
              /\ bookings'[b].vehicle = NULL
              /\ bookings'[b].otp = NoOtp
              /\ q.student_name = NULL
                   => bookings'[b].student_name =
                        (IF q.student_registration_id \in DOMAIN StudentDirectory
                         THEN StudentDirectory[q.student_registration_id]
                         ELSE "Unknown Student")]_vars

\* C27: the listing of pending bookings holds at most one booking.
C27_ListingHoldsOneBooking ==
    [][resp'.op = "pending" => Len(resp'.data.bookings) <= 1]_vars

-----------------------------------------------------------------------------
(* Properties of the OTP ledger (SpecLedger) *)

\* C22: an issue stores the code with expiry = the time of issue + 10
\* minutes; a verify succeeds if and only if the ledger has an entry for the
\* contact, its code is the given code and the time is before its expiry; a
\* successful verify removes that entry and no other (so the same code fails
\* from then on), a failed verify leaves the ledger as it is.
C22_VerifyIffEntryCodeInTime ==
    [][/\ (resp'.op = "forgot" /\ resp'.code = 200)
            => otp_storage'[resp'.data.phone].expires = now + 10
       /\ (resp'.op = "reset" /\ resp'.code # 0 /\ resp'.otp # NoOtp)
            => LET phone == resp'.data.phone
                   ok == /\ phone \in DOMAIN otp_storage
                         /\ otp_storage[phone].otp = resp'.otp
                         /\ now < otp_storage[phone].expires
               IN /\ (resp'.code = 200) <=> ok
                  /\ ok => /\ DOMAIN otp_storage' = (DOMAIN otp_storage) \ {phone}
                            /\ \A p \in DOMAIN otp_storage' : otp_storage'[p] = otp_storage[p]
                  /\ ~ok => otp_storage' = otp_storage]_vars

\* A verify with the right code has been refused because the entry had
\* expired, and the entry is still there.
C22_Witness ==
    /\ resp.op = "reset" /\ resp.code = 400
    /\ resp.data.phone \in DOMAIN otp_storage
    /\ otp_storage[resp.data.phone].otp = resp.otp
    /\ otp_storage[resp.data.phone].expires <= now

\* C23: an issue leaves exactly one entry for its contact, holding the new
\* code: where the contact had an entry with another code, that code no
\* longer verifies and the new one does; the entries of the other contacts
\* stay as they are.
C23_IssueOverwrites ==
    [][(resp'.op = "forgot" /\ resp'.code = 200)
        => LET phone == resp'.data.phone
           IN /\ DOMAIN otp_storage' = (DOMAIN otp_storage) \cup {phone}
              /\ otp_storage'[phone].otp = resp'.otp
              /\ verify_otp_mock(otp_storage', phone, resp'.otp)
              /\ \A k \in ResetCodes \ {resp'.otp} : ~verify_otp_mock(otp_storage', phone, k)
              /\ \A p \in (DOMAIN otp_storage) \ {phone} : otp_storage'[p] = otp_storage[p]]_vars

\* A code has been issued to a contact at a later time than the code another
\* contact still holds.
C23_Witness ==
    /\ resp.op = "forgot" /\ resp.code = 200
    /\ otp_storage[resp.data.phone].otp = resp.otp
    /\ \E p \in (DOMAIN otp_storage) \ {resp.data.phone} :
          /\ otp_storage[p].otp # resp.otp
          /\ otp_storage[p].expires < otp_storage[resp.data.phone].expires

\* C30: after a verify on a contact whose entry has expired the ledger holds
\* no entry for that contact.
C30_VerifyReclaimsExpired ==
    [][(/\ resp'.op = "reset" /\ resp'.otp # NoOtp
        /\ resp'.data.phone \in DOMAIN otp_storage
        /\ otp_storage[resp'.data.phone].expires <= now)
        => resp'.data.phone \notin DOMAIN otp_storage']_vars

-----------------------------------------------------------------------------
(* Properties of the admin's deletions (SpecFleetAdmin) *)

\* C28: the deletion of a vehicle deletes no booking and no trip: each
\* booking and each trip that referred to the vehicle is still there with its
\* vehicle reference null and its other fields as they were, and the others
\* are unchanged.
C28_DeleteVehicleKeepsTripsAndBookings ==
    [][(resp'.op = "delete_vehicle" /\ resp'.code = 200)
        => /\ DOMAIN bookings' = DOMAIN bookings
           /\ DOMAIN trips' = DOMAIN trips
           /\ bookings' = VehicleSetNull(bookings, resp'.vehicle)
           /\ trips' = VehicleSetNull(trips, resp'.vehicle)]_vars

-----------------------------------------------------------------------------
(* Properties of the codes generate_otp returns (Spec) *)

\* The decimal digits of n, padded with leading zeros to length digits.
RECURSIVE ZeroPadded(_, _)
ZeroPadded(n, length) ==
    IF length = 0 THEN <<>> ELSE Append(ZeroPadded(n \div 10, length - 1), n % 10)

\* Strings of length decimal digits, among them 000000 and 099999.
DigitStrings(length) ==
    {ZeroPadded(n, length) : n \in {m \in RandomSamples : m < Pow10(length)}}

\* C31: a code issued by accept has exactly 6 decimal digits, and whenever a
\* driver with an ambulance can accept a pending booking, every string of 6
\* digits, those starting with 0 included, is a code the accept can issue.
C31_EverySixDigitStringIsACode ==
    /\ resp.op = "accept" /\ resp.code = 200 => Len(resp.otp) = OtpLength
    /\ \A b \in DOMAIN bookings, d \in Drivers :
         PendingFound(b) /\ AmbulancesOf(d) # {}
           => \A s \in DigitStrings(OtpLength) :
                 ENABLED (AcceptBooking(d, b) /\ resp'.otp = s)

-----------------------------------------------------------------------------
(* Properties of who writes which column *)

\* A GPS request that is answered 200 for vehicle v.
GpsWrote(v) == resp'.op = "gps" /\ resp'.code = 200 /\ resp'.vehicle = v

\* C32 as stated: the current_location of an existing vehicle is written
\* only by the GPS endpoint: a step that changes the current_location of a
\* vehicle is a ReceiveGPS request for that vehicle, never a driver, student,
\* public or admin operation.
C32_OnlyGpsWritesLocation ==
    [][\A v \in (DOMAIN vehicles) \cap (DOMAIN vehicles') :
          vehicles'[v].current_location # vehicles[v].current_location
            => GpsWrote(v)]_vars

\* C32: the current_location of an existing vehicle is written only by the
\* GPS endpoint and by end-trip, which clears the location of the vehicle of
\* the trip it ends: no other driver, student, public or admin operation
\* changes the current_location of a vehicle.
C32_OnlyGpsAndEndTripWriteLocation ==
    [][\A v \in (DOMAIN vehicles) \cap (DOMAIN vehicles') :
          vehicles'[v].current_location # vehicles[v].current_location
            => \/ GpsWrote(v)
               \/ /\ resp'.op = "end" /\ resp'.code = 200
                  /\ trips[resp'.trip].vehicle = v
                  /\ vehicles'[v].current_location = EmptyLocation]_vars

\* A trip has just been ended and its vehicle has no location.
C32_Witness ==
    /\ resp.op = "end" /\ resp.code = 200
    /\ ~trips[resp.trip].is_active
    /\ vehicles[trips[resp.trip].vehicle].current_location = EmptyLocation

\* C33: a vehicle's is_out_of_station flag changes only through a successful
\* mark-out-of-station request of the driver the vehicle is assigned to; a
\* request of any other driver fails and leaves the flag as it was; no other
\* operation, the public active-buses listing included, changes the flag.
C33_OnlyAssignedDriverSetsFlag ==
    [][\A v \in (DOMAIN vehicles) \cap (DOMAIN vehicles') :
          /\ vehicles'[v].is_out_of_station # vehicles[v].is_out_of_station
               => /\ resp'.op = "out_of_station" /\ resp'.code = 200
                  /\ resp'.vehicle = v
                  /\ resp'.user = vehicles[v].assigned_to
          /\ (resp'.op = "out_of_station" /\ resp'.vehicle = v
                /\ resp'.user # vehicles[v].assigned_to)
               => /\ resp'.code >= 400
                  /\ vehicles'[v].is_out_of_station = vehicles[v].is_out_of_station]_vars

\* An offence row whose reference column is cleared when it points at x.
Cleared(row, column, x) ==
    IF row[column] = x THEN [row EXCEPT ![column] = NULL] ELSE row

\* The rows of the offences are those of before, added to at the end by
\* telemetry, lessened by one through the admin's delete of an offence, or
\* with the paid flag of one of them set.
AppendOnlyStep ==
    LET n == Len(offences) IN
    \/ offences' = offences
    \/ /\ resp'.op \in {"gps", "rfid"}
       /\ Len(offences') = n + 1
       /\ SubSeq(offences', 1, n) = offences
    \/ /\ resp'.op = "delete_offence"
       /\ \E i \in 1..n : offences' = Without(offences, i)
    \/ /\ resp'.op = "mark_paid"
       /\ \E i \in 1..n : offences' = [offences EXCEPT ![i].is_paid = TRUE]

\* C34 as stated: offences are append-only; telemetry and driver operations
\* never modify or remove an existing offence; the only changes to an
\* existing offence are the admin's delete of it and the paid flag, which
\* once true never becomes false again.
C34_AppendOnlyAsStated == [][AppendOnlyStep]_vars

\* C34: offences are append-only; telemetry and driver operations never
\* modify or remove an existing offence; the only changes to an existing
\* offence are the admin's delete of it, the paid flag, which once true
\* never becomes false again, and the clearing of its vehicle or driver
\* reference when the admin deletes that vehicle or driver.
C34_AppendOnlyButReferences ==
    [][\/ AppendOnlyStep
       \/ /\ resp'.op = "delete_vehicle"
          /\ Len(offences') = Len(offences)
          /\ \A i \in 1..Len(offences) :
                offences'[i] = Cleared(offences[i], "vehicle", resp'.vehicle)
       \/ /\ resp'.op = "delete_driver"
          /\ Len(offences') = Len(offences)
          /\ \A i \in 1..Len(offences) :
                offences'[i] = Cleared(offences[i], "driver", resp'.data.driver)]_vars

\* The bus was deleted: a paid offence of it remains, its vehicle reference
\* cleared and its plate kept.
C34_Witness ==
    /\ resp.op = "delete_vehicle" /\ resp.code = 200
    /\ \E i \in 1..Len(offences) :
          /\ offences[i].is_paid
          /\ offences[i].vehicle = NULL
          /\ offences[i].vehicle_number = "BUS-1"

-----------------------------------------------------------------------------
(* Properties of the rows in every reachable state *)

\* C35: in every reachable state, no admin having deleted anything, the
\* vehicle of every active trip is assigned to the driver of that trip.
C35_ActiveTripVehicleAssignedToDriver ==
    \A t \in DOMAIN trips :
        trips[t].is_active
          => /\ trips[t].vehicle \in DOMAIN vehicles
             /\ vehicles[trips[t].vehicle].assigned_to = trips[t].driver

\* The bookings in status accepted or in_progress.
InFlight == {b \in DOMAIN bookings : bookings[b].status \in {"accepted", "in_progress"}}

\* C36: in every reachable state each driver, and each ambulance, has at most
\* one booking in status accepted or in_progress, so that the one booking a
\* GPS sample refreshes is every in-flight booking of the ambulance.
C36_OneInFlightBookingPerDriverAndAmbulance ==
    /\ \A d \in Drivers :
          Cardinality({b \in InFlight : bookings[b].driver = d}) <= 1
    /\ \A v \in DOMAIN vehicles :
          Cardinality(ActiveBookingsOn(v)) <= 1

-----------------------------------------------------------------------------
(* Properties of whole-row saves under concurrent requests *)

\* Connection r takes the step that is the vehicle.save() of a GPS request or
\* of an end-trip request.
TelemetrySaves(r) ==
    /\ inflight[r].pc \in {"gps_save", "end_vehicle_save"}
    /\ inflight'[r] # inflight[r]

\* C37: the vehicle.save() of receiveGps and of end-trip changes only the
\* current_location of the vehicle: the assignment, the driver name and the
\* out-of-station flag that assign, release or mark-out-of-station wrote
\* since the request read the row are as they were before the save.
C37_TelemetrySaveKeepsRegistryColumns ==
    [][\A r \in Requests :
          TelemetrySaves(r)
            => \A v \in DOMAIN vehicles :
                  [vehicles'[v] EXCEPT !.current_location = vehicles[v].current_location]
                     = vehicles[v]]_vars

\* Connection r takes the step that is the booking.save() of a GPS request or
\* of an OTP verification.
BookingSaves(r) ==
    /\ inflight[r].pc \in {"gps_booking_save", "verify_save"}
    /\ inflight'[r] # inflight[r]

\* C38: when a GPS request or an OTP verification has read a booking and an
\* abort or complete has set its status since, the booking.save() of the
\* request leaves the status that the abort or complete set.
C38_SaveKeepsAbortAndComplete ==
    [][\A r \in Requests :
          BookingSaves(r)
            => LET b == inflight[r].booking
               IN (/\ bookings[b].status \in {"cancelled", "completed"}
                   /\ inflight[r].row.status \notin {"cancelled", "completed"})
                     => bookings'[b].status = bookings[b].status]_vars

\* The driver, vehicle and otp columns of a booking row.
AcceptColumns(bk) == <<bk.driver, bk.vehicle, bk.otp>>

\* C39: in every reachable state, no admin having deleted anything, a booking
\* is pending if and only if it has no driver; a pending booking has no
\* vehicle, no otp and no eta_minutes; a booking that is accepted,
\* in_progress, completed or cancelled has a driver, a vehicle and an otp,
\* and a step that changes one of the three is a successful accept of the
\* booking that writes all three: its caller, an ambulance and the code it
\* returns.
C39_PendingIffNoDriver ==
    [][\A b \in DOMAIN bookings' :
          LET bk == bookings'[b] IN
          /\ (bk.status = "pending") <=> (bk.driver = NULL)
          /\ bk.status = "pending"
               => bk.vehicle = NULL /\ bk.otp = NoOtp /\ bk.eta_minutes = NoEta
          /\ bk.status \in {"accepted", "in_progress", "completed", "cancelled"}
               => bk.driver # NULL /\ bk.vehicle # NULL /\ bk.otp # NoOtp
          /\ (b \in DOMAIN bookings /\ AcceptColumns(bk) # AcceptColumns(bookings[b]))
               => /\ resp'.op = "accept" /\ resp'.code = 200 /\ resp'.booking = b
                  /\ bk.driver = resp'.user
                  /\ bk.vehicle \in DOMAIN vehicles
                  /\ vehicles[bk.vehicle].vehicle_type = "ambulance"
                  /\ bk.otp = resp'.otp /\ Len(bk.otp) = OtpLength]_vars

\* A booking that was accepted and then aborted keeps the driver, the
\* ambulance and the code of the accept.
C39_Witness ==
    /\ resp.op = "abort" /\ resp.booking \in DOMAIN bookings
    /\ bookings[resp.booking].status = "cancelled"
    /\ bookings[resp.booking].driver = resp.user
    /\ bookings[resp.booking].vehicle # NULL
    /\ Len(bookings[resp.booking].otp) = OtpLength

-----------------------------------------------------------------------------
(* Properties of the ledger shared by accept and password reset (SpecOtpScope) *)

\* C40: the code an accept issues for a booking and returns to the driver
\* is usable for that booking only: no password reset for the booking's
\* phone succeeds with it, and an accept leaves every code the ledger holds
\* for a password reset as it is.
C40_AcceptCodeOnlyForBooking ==
    [][/\ (resp'.op = "reset" /\ resp'.code = 200)
            => ~\E b \in DOMAIN bookings :
                   bookings[b].phone = resp'.data.phone /\ bookings[b].otp = resp'.otp
       /\ resp'.op = "accept"
            => \A p \in DOMAIN otp_storage :
                   p \in DOMAIN otp_storage' /\ otp_storage'[p] = otp_storage[p]]_vars

====
